---- MODULE Spec2Model ----
(***************************************************************************)
(* Session and booking orchestrator of the AI IVR agent.                   *)
(*                                                                         *)
(*   src/ai_ivr_agent/epic_oauth.py            EpicOAuthClient (the token  *)
(*                                             store and the authorization *)
(*                                             client, one class)          *)
(*   src/ai_ivr_agent/mcp_tools/epic_server.py EpicOAuthPKCE               *)
(*   src/ai_ivr_agent/AI_IVR.py                the call flow, the Flask    *)
(*                                             routes, MCPRouterFallback   *)
(*   src/ai_ivr_agent/ivr_agent.py             detect_intent and the       *)
(*                                             manual intent handler       *)
(*                                                                         *)
(* Python's None is the string "None" where the value is a string, and the *)
(* empty tuple <<>> where the value is a record or a number (Some(x) is    *)
(* <<x>>).  A dict is a function whose DOMAIN is its set of keys.          *)
(***************************************************************************)
EXTENDS Integers, Sequences, FiniteSets, TLC

VARIABLES
    sessions,   \* epic_oauth._SESSIONS: session_id -> session dict
    now,        \* time.time(), in whole seconds
    posts,      \* number of requests sent to EPIC_TOKEN_URL so far
    ret,        \* what the last operation called from outside returned or raised
    built,      \* the ids build_authorize_url ran for since their session dict was made
    pc,         \* simulate_call_flow: the statement the call is suspended at
    user,       \* simulate_call_flow: the local `user`
    session_id, \* simulate_call_flow: the local `session_id`
    auth_url,   \* simulate_call_flow: the local `auth_url`
    attempt,    \* simulate_call_flow: iterations of the polling loop entered
    spoken,     \* the texts handed to speech_client.speak during the call
    result,     \* what simulate_call_flow returned or raised
    buffer,     \* LOGGER.buffer: the entries of the conversation log
    booked,     \* the requests sent to Appointment/$book
    current_file, \* LOGGER.current_file: the log file of the call, once started
    files,      \* the JSON files of the directory logs/: file name -> entries written
    lookup,     \* validate_customer: its arguments and whether the customer file exists
    snapshot,   \* the file data/auth_token.json: what json.dump last wrote to it
    caches,     \* the AuthTokenCache objects constructed so far: object -> self.token
    threads,    \* the callers running inside EpicOAuthClient: caller -> where it is
    loggers     \* the ConversationLogger objects of the process: object -> its fields

vars == <<sessions, now, posts, ret, built, pc, user, session_id, auth_url, attempt,
          spoken, result, buffer, booked, current_file, files, lookup, snapshot,
          caches, threads, loggers>>

storeVars == <<sessions, now, posts, ret, built>>
extraVars == <<snapshot, caches, threads, loggers>>
sideVars == <<buffer, booked, current_file, files, lookup, snapshot, caches, threads,
              loggers>>
callVars == <<pc, user, session_id, auth_url, attempt, spoken, result, buffer, booked,
              current_file, files, lookup, snapshot, caches, threads, loggers>>

----------------------------------------------------------------------------
(* Bounds of the model *)

MaxTime == 2
MaxPosts == 3
MaxLog == 2
MaxBooked == 1
MaxEntries == 2

(* Program constants *)

SafetyMargin == 10
DefaultExpiresIn == 3600
PollAttempts == 24
PollInterval == 5

----------------------------------------------------------------------------
(* Values *)

None == "None"
Nothing == <<>>
Some(x) == <<x>>

\* the ids secrets.token_urlsafe(12) yields
SessionIds == {"s1", "s2"}
\* the id the client's operations are called with under Spec: the operations read
\* and write self.sessions[session_id] only, so one id shows each of them
ClientIds == {"s1"}
Verifiers == {"v1", "v2"}
Codes == {"abc123"}
AccessTokens == {"tok1", "tok2"}
RefreshTokens == {"r1"}

\* hashlib.sha256 followed by base64url: a one-way map, injective on Verifiers
S256(verifier) == <<"S256", verifier>>

\* _make_pkce_pair: the verifier is drawn from the random source
PkcePairs == {<<v, S256(v)>> : v \in Verifiers}

----------------------------------------------------------------------------
(* The token endpoint's answers *)

\* the text of id_token.split(".")[1], by what base64url + json.loads make of it
Segments ==
    {[kind |-> "undecodable", fhirUser |-> None],
     [kind |-> "array", fhirUser |-> None]}
    \cup {[kind |-> "object", fhirUser |-> u] :
            u \in {None, "Practitioner/d1", "Patient/p1", "https://fhir/Patient/p1"}}

\* an id_token: with or without a "." in it
IdTokens ==
    {[dotted |-> FALSE, segment |-> [kind |-> "undecodable", fhirUser |-> None]]}
    \cup {[dotted |-> TRUE, segment |-> g] : g \in Segments}

\* the patient hints of a token response: "__epic.dstu2.patient", "patient", "id_token"
PatientHints ==
    {[epic_patient |-> None, patient |-> None, id_token |-> Nothing],
     [epic_patient |-> None, patient |-> "p1", id_token |-> Nothing],
     [epic_patient |-> None, patient |-> None,
      id_token |-> Some([dotted |-> TRUE,
                         segment |-> [kind |-> "object",
                                      fhirUser |-> "https://fhir/Patient/p1"]])],
     [epic_patient |-> None, patient |-> None,
      id_token |-> Some([dotted |-> TRUE,
                         segment |-> [kind |-> "array", fhirUser |-> None]])]}

\* "expires_in" of a response: absent, or a number of seconds
ExpiresIns == {Nothing, Some(1), Some(SafetyMargin + 1), Some(DefaultExpiresIn)}

\* r.json() of a 2xx answer of the token endpoint with these keys; the code reads every
\* key with .get, "access_token" included, so a body without one is accepted
TokenResponse(a, r, e, h) ==
    [access_token |-> a, refresh_token |-> r, expires_in |-> e,
     epic_patient |-> h.epic_patient, patient |-> h.patient, id_token |-> h.id_token]

\* the answers considered: every access token, refresh token and lifetime without a
\* patient hint, and every patient hint with one of them
TokenResponses ==
    {TokenResponse(a, r, e, [epic_patient |-> None, patient |-> None, id_token |-> Nothing]) :
        a \in AccessTokens \cup {None}, r \in RefreshTokens \cup {None}, e \in ExpiresIns}
    \cup {TokenResponse("tok1", "r1", Nothing, h) : h \in PatientHints}

\* an answer of requests.post(EPIC_TOKEN_URL, ...) that is not 2xx
ErrorAnswer == [ok |-> FALSE, body |-> Nothing]

\* the answers of requests.post(EPIC_TOKEN_URL, ...): 2xx with a body, or not 2xx
HttpAnswers == {[ok |-> TRUE, body |-> Some(b)] : b \in TokenResponses} \cup {ErrorAnswer}

\* the answers to choose from: all of them when a request is sent (sent = 1), and
\* one, which is not read, when none is
AnswersIf(sent) == IF sent = 1 THEN HttpAnswers ELSE {ErrorAnswer}

----------------------------------------------------------------------------
(* epic_oauth.py: helpers *)

\* _safe_b64_json_decode: the decoded JSON value, {} when decoding fails
SafeB64JsonDecode(segment) ==
    IF segment.kind = "undecodable"
    THEN [kind |-> "object", fhirUser |-> None]
    ELSE segment

\* the claims read from an id_token: {} when it holds no "."
IdTokenClaims(id_token) ==
    IF id_token.dotted
    THEN SafeB64JsonDecode(id_token.segment)
    ELSE [kind |-> "object", fhirUser |-> None]

\* "/Patient/" in fhir_user
HasPatientPath(fhir_user) == fhir_user = "https://fhir/Patient/p1"

\* fhir_user.split("/Patient/")[-1]
PatientPathTail(fhir_user) ==
    IF fhir_user = "https://fhir/Patient/p1" THEN "p1" ELSE fhir_user

\* the patient id an id_token yields: claims.get raises when claims is no dict
PatientFromIdToken(id_token) ==
    LET claims == IdTokenClaims(id_token) IN
    IF claims.kind # "object"
    THEN [raised |-> "AttributeError", patient |-> None]
    ELSE IF claims.fhirUser # None /\ HasPatientPath(claims.fhirUser)
         THEN [raised |-> None, patient |-> PatientPathTail(claims.fhirUser)]
         ELSE [raised |-> None, patient |-> None]

\* redeem_code_for_token, lines 118-136: the patient id derived from the response
DerivePatient(tok) ==
    LET first == IF tok.epic_patient # None THEN tok.epic_patient ELSE tok.patient IN
    IF first = None /\ tok.id_token # Nothing
    THEN PatientFromIdToken(tok.id_token[1])
    ELSE [raised |-> None, patient |-> first]

\* get_valid_access_token, lines 177-182: the patient id re-read after a refresh
RederivePatient(tok) ==
    IF tok.id_token # Nothing
    THEN PatientFromIdToken(tok.id_token[1])
    ELSE [raised |-> None, patient |-> None]

\* int(tok.get("expires_in", 3600))
ExpiresInOf(tok) ==
    IF tok.expires_in = Nothing THEN DefaultExpiresIn ELSE tok.expires_in[1]

\* the stored token with expires_at = time.time(), the lifetime not added
StoredToken_NoLifetime(tok, t) ==
    [access_token |-> tok.access_token, refresh_token |-> tok.refresh_token,
     expires_at |-> t]

\* tok["expires_at"] = time.time() + int(tok.get("expires_in", 3600)); the stored token
StoredToken(tok, t) ==
    [access_token |-> tok.access_token, refresh_token |-> tok.refresh_token,
     expires_at |-> t + ExpiresInOf(tok)]

\* the freshness test without the safety margin
StillValid_NoMargin(tok, t) == t < tok.expires_at

\* time.time() < tok.get("expires_at", 0) - 10
StillValid(tok, t) == t < tok.expires_at - SafetyMargin

\* the dict create_session stores (created_at is never read: its value is left out)
NewSession(t) ==
    [created_at |-> Some("time"), pkce_verifier |-> None, token |-> Nothing,
     fhir_patient_id |-> None]

\* the dict build_authorize_url's setdefault(session_id, {}) makes, keys read with .get
BareSession ==
    [created_at |-> Nothing, pkce_verifier |-> None, token |-> Nothing,
     fhir_patient_id |-> None]

\* the query parameters of the authorize URL that bind it to a session
AuthorizeUrl(state, challenge) ==
    [state |-> state, code_challenge |-> challenge, code_challenge_method |-> "S256"]

\* of the dict redeem_code_for_token returns, the keys its callers read
Returned(tok) == [access_token |-> tok.access_token, expires_in |-> tok.expires_in]

\* what an operation hands back: the exception raised (raised) or the value returned
\* (val; tok is the dict redeem_code_for_token returns), the authorize URL built, and
\* the request it sent to the token endpoint (posted: the grant type, http: the answer);
\* status is the HTTP status a Flask route answers with; read is the list read_log
\* or find_slots returned
Ret(op, sid) ==
    [op |-> op, sid |-> sid, raised |-> None, val |-> None, tok |-> Nothing,
     url |-> Nothing, posted |-> None, http |-> None, status |-> None,
     read |-> Nothing]

PyBool(b) == IF b THEN "True" ELSE "False"

----------------------------------------------------------------------------
(* epic_oauth.py: EpicOAuthClient *)

Known(s) == s \in DOMAIN sessions

\* self.sessions[session_id] = value, all ids sharing one dict object
Put_Shared(s, value) == [x \in DOMAIN sessions \cup {s} |-> value]

\* self.sessions[session_id] = value
Put(s, value) == [x \in DOMAIN sessions \cup {s} |-> IF x = s THEN value ELSE sessions[x]]

\* create_session's store: self.sessions[session_id] = {...}
Created(s) == Put(s, NewSession(now))

\* build_authorize_url storing the verifier in an existing session only
VerifierSet_KnownOnly(s, verifier) ==
    IF Known(s)
    THEN Put(s, [sessions[s] EXCEPT !.pkce_verifier = verifier])
    ELSE sessions

\* build_authorize_url's store: self.sessions.setdefault(session_id, {})["pkce_verifier"] = verifier
VerifierSet(s, verifier) ==
    Put(s, [(IF Known(s) THEN sessions[s] ELSE BareSession) EXCEPT !.pkce_verifier = verifier])

\* redeem_code_for_token without its check of the PKCE verifier
RedeemRefusal_NoVerifierCheck(s) ==
    IF ~Known(s) THEN "UnknownSession" ELSE None

\* redeem_code_for_token reporting a missing session as a missing verifier
RedeemRefusal_UnknownAsMissing(s) ==
    IF ~Known(s) \/ sessions[s].pkce_verifier = None THEN "MissingVerifier" ELSE None

\* the checks redeem_code_for_token makes before it sends anything
RedeemRefusal(s) ==
    IF ~Known(s) THEN "UnknownSession"
    ELSE IF sessions[s].pkce_verifier = None THEN "MissingVerifier"
    ELSE None

\* has_token answering for fresh tokens only
has_token_FreshOnly(s) ==
    /\ Known(s)
    /\ sessions[s].token # Nothing
    /\ sessions[s].token[1].access_token # None
    /\ StillValid(sessions[s].token[1], now)

\* has_token: bool(tok and tok.get("access_token"))
has_token(s) ==
    /\ Known(s)
    /\ sessions[s].token # Nothing
    /\ sessions[s].token[1].access_token # None

\* create_session
create_session(s) ==
    /\ sessions' = Created(s)
    /\ built' = built \ {s}

\* build_authorize_url: the store, and the URL returned
build_authorize_url(s, pair) ==
    /\ sessions' = VerifierSet(s, pair[1])
    /\ built' = built \cup {s}

CreateSession(s) ==
    /\ create_session(s)
    /\ ret' = Ret("create_session", s)
    /\ UNCHANGED <<now, posts>>
    /\ UNCHANGED callVars

BuildAuthorizeUrl(s) ==
    \E pair \in PkcePairs :
        /\ build_authorize_url(s, pair)
        /\ ret' = [Ret("build_authorize_url", s) EXCEPT
                     !.url = Some(AuthorizeUrl(s, pair[2]))]
        /\ UNCHANGED <<now, posts>>
        /\ UNCHANGED callVars

\* redeem_code_for_token consuming the verifier when it stores the token
RedeemStore_ClearsVerifier(s, tok) ==
    [sessions[s] EXCEPT !.token = Some(StoredToken(tok, now)), !.pkce_verifier = None]

\* redeem_code_for_token, lines 112-138: the session after the request was answered
\* with `tok` (the token is stored before the patient id is derived)
RedeemStore(s, tok) ==
    LET derived == DerivePatient(tok)
        withToken == [sessions[s] EXCEPT !.token = Some(StoredToken(tok, now))]
    IN  IF derived.raised = None /\ derived.patient # None
        THEN [withToken EXCEPT !.fhir_patient_id = derived.patient]
        ELSE withToken

\* redeem_code_for_token, the token endpoint answering `answer` if asked: the store
\* it leaves, what it returns or raises, and whether it sent a request
redeem_code_for_token(code, s, answer) ==
    LET r == Ret("redeem_code_for_token", s)
        sent == [r EXCEPT !.posted = "authorization_code",
                          !.http = IF answer.ok THEN "2xx" ELSE "error"]
    IN  IF RedeemRefusal(s) # None
        THEN [sessions |-> sessions, ret |-> [r EXCEPT !.raised = RedeemRefusal(s)],
              sent |-> 0]
        ELSE IF ~answer.ok
        THEN [sessions |-> sessions, ret |-> [sent EXCEPT !.raised = "HTTPError"],
              sent |-> 1]
        ELSE [sessions |-> Put(s, RedeemStore(s, answer.body[1])),
              ret |-> IF DerivePatient(answer.body[1]).raised # None
                      THEN [sent EXCEPT !.raised = DerivePatient(answer.body[1]).raised]
                      ELSE [sent EXCEPT !.val = answer.body[1].access_token,
                                        !.tok = Some(Returned(answer.body[1]))],
              sent |-> 1]

RedeemCodeForToken(code, s) ==
    \E answer \in AnswersIf(redeem_code_for_token(code, s, ErrorAnswer).sent) :
        LET done == redeem_code_for_token(code, s, answer) IN
        /\ posts + done.sent <= MaxPosts
        /\ sessions' = done.sessions
        /\ ret' = done.ret
        /\ posts' = posts + done.sent
        /\ UNCHANGED <<now, built>>
        /\ UNCHANGED callVars

\* has_token reading the session with setdefault instead of get
HasToken_SetDefault(s) ==
    /\ sessions' = IF Known(s) THEN sessions ELSE Put(s, BareSession)
    /\ ret' = [Ret("has_token", s) EXCEPT !.val = PyBool(has_token(s))]
    /\ UNCHANGED <<now, posts, built>>
    /\ UNCHANGED callVars

HasToken(s) ==
    /\ ret' = [Ret("has_token", s) EXCEPT !.val = PyBool(has_token(s))]
    /\ UNCHANGED <<sessions, now, posts, built>>
    /\ UNCHANGED callVars

\* get_valid_access_token, lines 173-183: the session after the refresh was answered
\* with `newtok`
RefreshStore(s, newtok) ==
    LET derived == RederivePatient(newtok)
        withToken == [sessions[s] EXCEPT !.token = Some(StoredToken(newtok, now))]
    IN  IF derived.raised = None /\ derived.patient # None
        THEN [withToken EXCEPT !.fhir_patient_id = derived.patient]
        ELSE withToken

\* get_valid_access_token discarding the stale token when the refresh is refused
get_valid_access_token_DropsOnError(s, answer) ==
    LET r == Ret("get_valid_access_token", s)
        sent == [r EXCEPT !.posted = "refresh_token",
                          !.http = IF answer.ok THEN "2xx" ELSE "error"]
    IN  IF ~Known(s) \/ sessions[s].token = Nothing
        THEN [sessions |-> sessions, ret |-> r, sent |-> 0]
        ELSE IF StillValid(sessions[s].token[1], now)
        THEN [sessions |-> sessions,
              ret |-> [r EXCEPT !.val = sessions[s].token[1].access_token],
              sent |-> 0]
        ELSE IF sessions[s].token[1].refresh_token = None
        THEN [sessions |-> sessions, ret |-> r, sent |-> 0]
        ELSE IF ~answer.ok
        THEN [sessions |-> Put(s, [sessions[s] EXCEPT !.token = Nothing]),
              ret |-> [sent EXCEPT !.raised = "HTTPError"],
              sent |-> 1]
        ELSE [sessions |-> Put(s, RefreshStore(s, answer.body[1])),
              ret |-> IF RederivePatient(answer.body[1]).raised # None
                      THEN [sent EXCEPT
                              !.raised = RederivePatient(answer.body[1]).raised]
                      ELSE [sent EXCEPT !.val = answer.body[1].access_token],
              sent |-> 1]

\* get_valid_access_token, the token endpoint answering `answer` if asked: the store
\* it leaves, what it returns or raises, and whether it sent a request
get_valid_access_token(s, answer) ==
    LET r == Ret("get_valid_access_token", s)
        sent == [r EXCEPT !.posted = "refresh_token",
                          !.http = IF answer.ok THEN "2xx" ELSE "error"]
    IN  IF ~Known(s) \/ sessions[s].token = Nothing
        THEN [sessions |-> sessions, ret |-> r, sent |-> 0]
        ELSE IF StillValid(sessions[s].token[1], now)
        THEN [sessions |-> sessions,
              ret |-> [r EXCEPT !.val = sessions[s].token[1].access_token],
              sent |-> 0]
        ELSE IF sessions[s].token[1].refresh_token = None
        THEN [sessions |-> sessions, ret |-> r, sent |-> 0]
        ELSE IF ~answer.ok
        THEN [sessions |-> sessions, ret |-> [sent EXCEPT !.raised = "HTTPError"],
              sent |-> 1]
        ELSE [sessions |-> Put(s, RefreshStore(s, answer.body[1])),
              ret |-> IF RederivePatient(answer.body[1]).raised # None
                      THEN [sent EXCEPT
                              !.raised = RederivePatient(answer.body[1]).raised]
                      ELSE [sent EXCEPT !.val = answer.body[1].access_token],
              sent |-> 1]

GetValidAccessToken(s) ==
    \E answer \in AnswersIf(get_valid_access_token(s, ErrorAnswer).sent) :
        LET done == get_valid_access_token(s, answer) IN
        /\ posts + done.sent <= MaxPosts
        /\ sessions' = done.sessions
        /\ ret' = done.ret
        /\ posts' = posts + done.sent
        /\ UNCHANGED <<now, built>>
        /\ UNCHANGED callVars

GetFhirPatientId(s) ==
    /\ ret' = [Ret("get_fhir_patient_id", s) EXCEPT
                 !.val = IF Known(s) THEN sessions[s].fhir_patient_id ELSE None]
    /\ UNCHANGED <<sessions, now, posts, built>>
    /\ UNCHANGED callVars

\* time passes
Tick ==
    /\ now < MaxTime
    /\ now' = now + 1
    /\ UNCHANGED <<sessions, posts, ret, built>>
    /\ UNCHANGED callVars

----------------------------------------------------------------------------
(* mcp_tools/epic_server.py: EpicOAuthPKCE *)

\* generate_auth_url: the URL carries no state parameter, and the verifier is handed
\* back to the caller instead of being stored in a session
GenerateAuthUrl ==
    \E pair \in PkcePairs :
        /\ ret' = [Ret("generate_auth_url", None) EXCEPT
                     !.val = pair[1], !.url = Some(AuthorizeUrl(None, pair[2]))]
        /\ UNCHANGED <<sessions, now, posts, built>>
        /\ UNCHANGED callVars

----------------------------------------------------------------------------
(* AI_IVR.py: the polling of a session *)

\* MCPRouterFallback.epic_has_token: it calls self.epic.has_valid_token, and
\* EpicOAuthClient has no attribute of that name (its method is has_token)
epic_has_token(s) == [raised |-> "AttributeError", val |-> FALSE]

\* GET /poll_auth?session=..: the route has no handler of exceptions, so one raised
\* by MCP.epic_has_token is answered by Flask with the status 500
PollAuth(s) ==
    /\ LET polled == epic_has_token(s) IN
       ret' = IF polled.raised # None
              THEN [Ret("poll_auth", s) EXCEPT !.raised = polled.raised, !.status = "500"]
              ELSE [Ret("poll_auth", s) EXCEPT !.val = PyBool(polled.val), !.status = "200"]
    /\ UNCHANGED <<sessions, now, posts, built>>
    /\ UNCHANGED callVars

----------------------------------------------------------------------------

Init ==
    /\ sessions = [s \in {} |-> BareSession]
    /\ now = 0
    /\ posts = 0
    /\ ret = Ret("init", None)
    /\ built = {}
    /\ pc = "idle"
    /\ user = Nothing
    /\ session_id = None
    /\ auth_url = Nothing
    /\ attempt = 0
    /\ spoken = <<>>
    /\ result = None
    /\ buffer = <<>>
    /\ booked = <<>>
    /\ current_file = Nothing
    /\ files = [f \in {} |-> <<>>]
    /\ lookup = Nothing
    /\ snapshot = <<>>
    /\ caches = [c \in {} |-> <<>>]
    /\ threads = [t \in {} |-> <<>>]
    /\ loggers = [l \in {} |-> <<>>]

\* the operations of EpicOAuthClient and EpicOAuthPKCE and the polling route, called
\* in any order
Next ==
    \/ \E s \in ClientIds : CreateSession(s)
    \/ \E s \in ClientIds : BuildAuthorizeUrl(s)
    \/ \E s \in ClientIds, code \in Codes : RedeemCodeForToken(code, s)
    \/ \E s \in ClientIds : HasToken(s)
    \/ \E s \in ClientIds : GetValidAccessToken(s)
    \/ \E s \in ClientIds : GetFhirPatientId(s)
    \/ GenerateAuthUrl
    \/ \E s \in ClientIds : PollAuth(s)
    \/ Tick

Spec == Init /\ [][Next]_vars

----------------------------------------------------------------------------
(* ivr_agent.py *)

\* what the caller says, by the keywords of detect_intent the text contains
Utterances ==
    {{}, {"benefit"}, {"appointment"}, {"login"}, {"coverage", "book"},
     {"schedule", "password"}}

\* detect_intent
detect_intent(text) ==
    IF text \cap {"benefit", "eligible", "eligibility", "coverage"} # {}
    THEN "benefit_eligibility"
    ELSE IF text \cap {"doctor", "appointment", "schedule", "book"} # {}
    THEN "doctor_schedule"
    ELSE IF text \cap {"password", "reset", "sign in", "login"} # {}
    THEN "password_reset"
    ELSE "general"

\* handle_intent_and_respond: the texts it speaks and the exception it raises, for
\* each way the caller may answer.  LOGGER is a ConversationLogger, which has no
\* append_response: the calls of it raise AttributeError.  (The dash of the first
\* prompt is written "-".)
handle_intent_and_respond(intent, user_record) ==
    LET ask == "Sure - what specialty do you need, or do you want a primary care physician?"
        found == "I found two available primary care appointments next week. Do you want me to book the first one?"
        proceed == "I can help reset your password. I will send a reset link to your registered email address. Would you like me to proceed?"
    IN
    IF intent = "benefit_eligibility"
    THEN {[said |-> <<"Your " \o user_record.plan \o " plan is active. You have outpatient and prescription coverage. Would you like me to send details to your email?">>,
           raised |-> "AttributeError"]}
    ELSE IF intent = "doctor_schedule"
    THEN {[said |-> <<ask, "I didn't catch that.">>, raised |-> None],
          [said |-> <<ask, found,
                      "Done. Your appointment is booked. You will receive a confirmation via email.">>,
           raised |-> "AttributeError"],
          [said |-> <<ask, found, "Okay, no appointment booked.">>, raised |-> None]}
    ELSE IF intent = "password_reset"
    THEN {[said |-> <<proceed,
                      "A password reset link has been sent. Please check your email.">>,
           raised |-> "AttributeError"],
          [said |-> <<proceed, "Okay, no reset initiated.">>, raised |-> None]}
    ELSE {[said |-> <<"I can help with checking benefits, scheduling doctors, or resetting passwords.">>,
           raised |-> None]}

----------------------------------------------------------------------------
(* AI_IVR.py: MCPRouterFallback, the call flow and the routes *)

\* the records validate_customer can return
Customers ==
    {[phone |-> "5551234567", first_name |-> "Ann", last_name |-> "Lee",
      plan |-> "Gold", email |-> "ann@example.org"]}

\* what the caller answers to the offer of the Epic connection
Choices == {"", "connect", "manual", "epic"}

\* "epic" in choice
SaysEpic(choice) == choice = "epic"

Say(texts) == spoken' = spoken \o texts

\* POST /start_call: asyncio.run(simulate_call_flow()) begins
StartCall ==
    /\ pc = "idle"
    /\ pc' = "authenticate"
    /\ spoken' = <<"Incoming call. Connecting now.">>
    /\ user' = Nothing
    /\ session_id' = None
    /\ auth_url' = Nothing
    /\ attempt' = 0
    /\ result' = None
    /\ UNCHANGED storeVars
    /\ UNCHANGED sideVars

\* the prompts of authenticate_user, in the order it speaks them
IdentityPrompts ==
    <<"Please say your registered phone number.",
      "Say the last four digits of your SSN.",
      "Say your date of birth in MM slash DD slash YYYY.">>

\* authenticate_user with simulate_call_flow going on to the offer when it yields None
AuthenticateUser_NoReturn ==
    /\ pc = "authenticate"
    /\ \E found \in {Nothing} \cup {Some(c) : c \in Customers} :
         /\ user' = found
         /\ Say(IdentityPrompts \o <<IF found = Nothing THEN "Authentication failed."
                                     ELSE "Welcome " \o found[1].first_name \o ".">>)
         /\ pc' = "offer"
    /\ UNCHANGED <<session_id, auth_url, attempt, result>>
    /\ UNCHANGED storeVars
    /\ UNCHANGED sideVars

\* authenticate_user, and simulate_call_flow's return when it yields None
AuthenticateUser ==
    /\ pc = "authenticate"
    /\ \E found \in {Nothing} \cup {Some(c) : c \in Customers} :
         /\ user' = found
         /\ IF found = Nothing
            THEN /\ Say(<<"Please say your registered phone number.",
                          "Say the last four digits of your SSN.",
                          "Say your date of birth in MM slash DD slash YYYY.", "Authentication failed.">>)
                 /\ result' = "Authentication failed."
                 /\ pc' = "returned"
            ELSE /\ Say(<<"Please say your registered phone number.",
                          "Say the last four digits of your SSN.",
                          "Say your date of birth in MM slash DD slash YYYY.", "Welcome " \o found[1].first_name \o ".">>)
                 /\ result' = result
                 /\ pc' = "offer"
    /\ UNCHANGED <<session_id, auth_url, attempt>>
    /\ UNCHANGED storeVars
    /\ UNCHANGED sideVars

\* simulate_call_flow, lines 115-129: the offer, and MCP.epic_start when the answer
\* holds "epic" (create_session, then build_authorize_url)
OfferEpic(choice) ==
    /\ pc = "offer"
    /\   IF SaysEpic(choice)
         THEN \E s \in SessionIds, pair \in PkcePairs :
                /\ session_id' = s
                /\ sessions' = [Created(s) EXCEPT ![s].pkce_verifier = pair[1]]
                /\ built' = built \cup {s}
                /\ auth_url' = Some(AuthorizeUrl(s, pair[2]))
                /\ Say(<<"If you want me to connect to your Epic record, say connect. Otherwise say manual.",
                         "I sent a secure Epic login link to my console.">>)
                /\ pc' = "poll_sleep"
         ELSE /\ Say(<<"If you want me to connect to your Epic record, say connect. Otherwise say manual.">>)
              /\ pc' = "manual"
              /\ UNCHANGED <<session_id, auth_url, sessions, built>>
    /\ UNCHANGED <<user, attempt, result, now, posts, ret>>
    /\ UNCHANGED sideVars

\* the head of `for _ in range(24)` and `await asyncio.sleep(5)`; after the last
\* iteration, the fall through to the manual mode
PollSleep ==
    /\ pc = "poll_sleep"
    /\ IF attempt < PollAttempts
       THEN /\ attempt' = attempt + 1
            /\ now' = now + PollInterval
            /\ pc' = "poll_check"
            /\ UNCHANGED spoken
       ELSE /\ Say(<<"Login not detected. Continuing without Epic.">>)
            /\ pc' = "manual"
            /\ UNCHANGED <<attempt, now>>
    /\ UNCHANGED <<user, session_id, auth_url, result, sessions, posts, ret, built>>
    /\ UNCHANGED sideVars

\* `if MCP.epic_has_token(session_id)`: an exception leaves simulate_call_flow; a
\* true answer leads to the Epic intent routing, a false one to the next iteration
PollCheck ==
    /\ pc = "poll_check"
    /\ LET polled == epic_has_token(session_id) IN
       IF polled.raised # None
       THEN /\ result' = polled.raised
            /\ pc' = "raised"
            /\ UNCHANGED spoken
       ELSE IF polled.val
       THEN /\ Say(<<"Epic authentication completed.", "How can I help you today?">>)
            /\ pc' = "epic_intent"
            /\ UNCHANGED result
       ELSE /\ pc' = "poll_sleep"
            /\ UNCHANGED <<spoken, result>>
    /\ UNCHANGED <<user, session_id, auth_url, attempt>>
    /\ UNCHANGED storeVars
    /\ UNCHANGED sideVars

\* simulate_call_flow, lines 144-151: the manual mode
ManualMode ==
    /\ pc = "manual"
    /\ \E utterance \in Utterances :
         \E done \in handle_intent_and_respond(detect_intent(utterance), user[1]) :
            IF done.raised # None
            THEN /\ Say(<<"How can I help you?">> \o done.said)
                 /\ result' = done.raised
                 /\ pc' = "raised"
            ELSE /\ Say(<<"How can I help you?">> \o done.said \o <<"Goodbye.">>)
                 /\ result' = "Call completed (Manual Mode)."
                 /\ pc' = "returned"
    /\ UNCHANGED <<user, session_id, auth_url, attempt>>
    /\ UNCHANGED storeVars
    /\ UNCHANGED sideVars

\* start_call: the answer of the route once simulate_call_flow returned or raised
StartCallAnswers ==
    /\ pc \in {"returned", "raised"}
    /\ ret' = [Ret("start_call", None) EXCEPT
                 !.status = IF pc = "raised" THEN "500" ELSE "200"]
    /\ pc' = "answered"
    /\ UNCHANGED <<user, session_id, auth_url, attempt, spoken, result>>
    /\ UNCHANGED <<sessions, now, posts, built>>
    /\ UNCHANGED sideVars

\* epic_callback testing the code only
MissingParameters_CodeOnly(code, state) == code = None

\* line 280, `not code or not state`: a query parameter that is absent reads as None
MissingParameters(code, state) == code = None \/ state = None

\* GET /epic_callback?code=..&state=..: the browser comes back from the login
EpicCallback(code, state) ==
    /\ IF MissingParameters(code, state)
       THEN /\ ret' = [Ret("epic_callback", state) EXCEPT !.status = "400"]
            /\ UNCHANGED <<sessions, posts>>
       ELSE \E answer \in AnswersIf(redeem_code_for_token(code, state, ErrorAnswer).sent) :
              LET done == redeem_code_for_token(code, state, answer) IN
              /\ posts + done.sent <= MaxPosts
              /\ sessions' = done.sessions
              /\ posts' = posts + done.sent
              /\ ret' = [Ret("epic_callback", state) EXCEPT
                           !.raised = done.ret.raised,
                           !.posted = done.ret.posted,
                           !.http = done.ret.http,
                           !.status = IF done.ret.raised # None THEN "500" ELSE "200"]
    /\ UNCHANGED <<now, built>>
    /\ UNCHANGED callVars

\* one call, from POST /start_call to the route's answer, with the browser's
\* callbacks arriving at any time; the clock advances with the sleeps of the polling loop
NextCall ==
    \/ StartCall
    \/ AuthenticateUser
    \/ \E choice \in Choices : OfferEpic(choice)
    \/ PollSleep
    \/ PollCheck
    \/ ManualMode
    \/ StartCallAnswers
    \/ \E code \in Codes \cup {None}, state \in SessionIds \cup {None} :
         EpicCallback(code, state)

SpecCall == Init /\ [][NextCall]_vars

\* the same, with the steps that can be taken being taken: the call runs on, and the
\* server goes on answering callbacks
SpecCallLive == Init /\ [][NextCall]_vars /\ WF_vars(NextCall)

----------------------------------------------------------------------------
(* AI_IVR.py: MCPRouterFallback's scheduling, logging, summary and email methods *)

\* the lists of slots a search can yield
SlotLists == {<<>>, <<"a1">>, <<"a1", "a2", "a3">>, <<"a1", "a2", "a3", "a4">>}

\* what the scheduling endpoint would answer to a search: an error, or slots
FindAnswers ==
    {[ok |-> FALSE, slots |-> <<>>]} \cup {[ok |-> TRUE, slots |-> l] : l \in SlotLists}

\* what the caller says when asked for the option number
SlotChoices == {"", "1", "one", "2", "two", "3", "none"}

\* `key in choice`, for the keys the selection tests
Contains(choice, key) ==
    <<choice, key>> \in {<<"1", "1">>, <<"one", "one">>, <<"none", "one">>,
                         <<"2", "2">>, <<"3", "3">>}

\* the HTTP status Appointment/$book can answer with: booked, the slot is taken
\* already, or another error
BookStatuses == {"200", "409", "500"}

\* the answers of the token endpoint to the refresh the handler may cause
RefreshAnswers ==
    {ErrorAnswer,
     [ok |-> TRUE,
      body |-> Some(TokenResponse("tok2", "r1", Nothing,
                                  [epic_patient |-> None, patient |-> None,
                                   id_token |-> Nothing]))]}

\* the world of one run of the handler: the answer to the slot search, what the caller
\* says to the options, whether Appointment/$book and the SMTP server succeed, and the
\* token endpoint's answer to a refresh
IntentEnvs ==
    [find : FindAnswers, choice : SlotChoices, book : BookStatuses, smtp : BOOLEAN,
     refresh : RefreshAnswers]

\* the records the handler can be called with: with or without an email address
UserRecords == Customers \cup {[c EXCEPT !.email = None] : c \in Customers}

\* the intents detect_intent yields
Intents == {"benefit_eligibility", "doctor_schedule", "password_reset", "general"}

\* MCPRouterFallback.log_utterance: self.logger.append_utterance, and
\* ConversationLogger has no attribute of that name
log_utterance(phone, text) == [raised |-> "AttributeError"]

\* MCPRouterFallback.find_slots: self.fhir.search_available_slots, and
\* FHIRAppointmentClient has no attribute of that name (its method is find_slots)
find_slots(specialty, token, find) == [raised |-> "AttributeError", slots |-> <<>>]

\* MCPRouterFallback.book_slot -> FHIRAppointmentClient.book_appointment: refused
\* without a token, else one request; raise_for_status raises requests.HTTPError for
\* every status that is not a success, the status being an attribute of its response
book_slot(patient_id, slot, token, status) ==
    LET request == [patient |-> patient_id, slot |-> slot, token |-> token] IN
    IF token = None
    THEN [raised |-> "RuntimeError", status |-> None, sent |-> <<>>]
    ELSE IF status # "200"
    THEN [raised |-> "HTTPError", status |-> status, sent |-> <<request>>]
    ELSE [raised |-> None, status |-> status, sent |-> <<request>>]

\* MCPRouterFallback.get_conversation: self.logger.get_recent_conversation, and
\* ConversationLogger has no attribute of that name; neither has Summarizer a
\* generate_summary, nor ConversationLogger an append_summary (lines 213-215)
get_conversation(phone) == [raised |-> "AttributeError"]

\* MCPRouterFallback.send_email_confirmation -> EmailClient.send_appointment_confirmation:
\* an exception of the delivery is caught there and printed, none reaches the caller
send_email_confirmation(to_email, delivered) == [raised |-> None, delivered |-> delivered]

----------------------------------------------------------------------------
(* AI_IVR.py: handle_intent_with_epic *)

\* lines 191-197: the slot the caller's answer selects, if any
SelectedSlot(choice, slots) ==
    IF Contains(choice, "1") \/ Contains(choice, "one") THEN Some(slots[1])
    ELSE IF Contains(choice, "2") /\ Len(slots) > 1 THEN Some(slots[2])
    ELSE IF Contains(choice, "3") /\ Len(slots) > 2 THEN Some(slots[3])
    ELSE Nothing

\* lines 182-186: the options spoken, for the first three slots
OptionTexts(slots) ==
    [i \in 1..(IF Len(slots) < 3 THEN Len(slots) ELSE 3) |->
        IF i = 1 THEN "Option 1" ELSE IF i = 2 THEN "Option 2" ELSE "Option 3"]

\* lines 210-229: after the booking succeeded (`so_far` is the run up to there)
AfterBooking(user_record, so_far, env) ==
    LET told == [so_far EXCEPT !.said = @ \o <<"Your appointment is booked.">>]
        convo == get_conversation(user_record.phone)
        mail == send_email_confirmation(user_record.email, env.smtp)
    IN  IF convo.raised # None
        THEN [told EXCEPT !.raised = convo.raised]
        ELSE IF user_record.email = None
        THEN [told EXCEPT !.said = @ \o <<"Anything else?">>]
        ELSE IF mail.raised # None
        THEN [told EXCEPT !.said = @ \o <<"Email sending failed.", "Anything else?">>]
        ELSE [told EXCEPT !.said = @ \o <<"Confirmation email sent.", "Anything else?">>]

\* lines 181-208: the options, the selection and the booking
BookSelected(user_record, so_far, slots, token, patient_id, env) ==
    LET asked == [so_far EXCEPT
                    !.said = @ \o OptionTexts(slots) \o <<"Say the option number to book.">>]
        selected == SelectedSlot(env.choice, slots)
        booking == book_slot(patient_id, selected[1], token, env.book)
    IN  IF selected = Nothing
        THEN [asked EXCEPT !.said = @ \o <<"No appointment booked.">>]
        ELSE IF booking.raised # None
        THEN [asked EXCEPT !.said = @ \o <<"Error booking the appointment.">>,
                           !.booked = booking.sent]
        ELSE AfterBooking(user_record, [asked EXCEPT !.booked = booking.sent], env)

\* lines 164-179: the token, the patient id and the slot search
ScheduleWithEpic(user_record, s, env) ==
    LET got == get_valid_access_token(s, env.refresh)
        token == got.ret.val
        patient_id == IF s \in DOMAIN got.sessions
                      THEN got.sessions[s].fhir_patient_id ELSE None
        so_far == [said |-> <<"Which specialty do you need?">>, raised |-> None,
                   booked |-> <<>>, sessions |-> got.sessions, sent |-> got.sent]
        found == find_slots("specialty", token, env.find)
    IN  IF got.ret.raised # None
        THEN [so_far EXCEPT !.raised = got.ret.raised]
        ELSE IF found.raised # None
        THEN [so_far EXCEPT !.said = @ \o <<"I couldn't find any appointments.">>]
        ELSE IF found.slots = <<>>
        THEN [so_far EXCEPT !.said = @ \o <<"No slots available.">>]
        ELSE BookSelected(user_record, so_far, found.slots, token, patient_id, env)

\* handle_intent_with_epic in the world `env`: the ways it can run, each with the texts
\* it speaks, the exception that leaves it, the booking requests it sends and the
\* session store it leaves
handle_intent_with_epic(intent, user_record, s, env) ==
    LET logged == log_utterance(user_record.phone, intent)
        nothing == [said |-> <<>>, raised |-> None, booked |-> <<>>,
                    sessions |-> sessions, sent |-> 0]
    IN  IF logged.raised # None
        THEN {[nothing EXCEPT !.raised = logged.raised]}
        ELSE IF intent # "doctor_schedule"
        THEN {[nothing EXCEPT !.said = o.said, !.raised = o.raised] :
                o \in handle_intent_and_respond(intent, user_record)}
        ELSE {ScheduleWithEpic(user_record, s, env)}

\* a call of handle_intent_with_epic(intent, user, session_id)
HandleIntentWithEpic(intent, user_record, s, env) ==
    /\ pc = "epic_intent"
    /\ \E run \in handle_intent_with_epic(intent, user_record, s, env) :
         /\ posts + run.sent <= MaxPosts
         /\ sessions' = run.sessions
         /\ posts' = posts + run.sent
         /\ spoken' = spoken \o run.said
         /\ booked' = booked \o run.booked
         /\ result' = run.raised
         /\ ret' = [Ret("handle_intent_with_epic", s) EXCEPT !.raised = run.raised]
         /\ pc' = IF run.raised # None THEN "raised" ELSE "returned"
    /\ user' = Some(user_record)
    /\ session_id' = s
    /\ UNCHANGED <<now, built, auth_url, attempt, buffer, current_file, files, lookup>>
    /\ UNCHANGED extraVars

\* GET /start_epic_login: a new session id, MCP.epic_start (create_session, then
\* build_authorize_url), and the id and the URL in the answer
StartEpicLogin(s) ==
    /\ ~Known(s)
    /\ \E pair \in PkcePairs :
         /\ sessions' = [Created(s) EXCEPT ![s].pkce_verifier = pair[1]]
         /\ ret' = [Ret("start_epic_login", s) EXCEPT
                      !.url = Some(AuthorizeUrl(s, pair[2])), !.status = "200"]
    /\ built' = built \cup {s}
    /\ UNCHANGED <<now, posts>>
    /\ UNCHANGED callVars

\* handle_intent_with_epic is about to be called: the call that leads to it in
\* simulate_call_flow has spoken its last prompt and heard the caller
InitIntent ==
    /\ sessions = [s \in {} |-> BareSession]
    /\ now = 0
    /\ posts = 0
    /\ ret = Ret("init", None)
    /\ built = {}
    /\ pc = "epic_intent"
    /\ user = Nothing
    /\ session_id = None
    /\ auth_url = Nothing
    /\ attempt = 0
    /\ spoken = <<>>
    /\ result = None
    /\ buffer = <<>>
    /\ booked = <<>>
    /\ current_file = Nothing
    /\ files = [f \in {} |-> <<>>]
    /\ lookup = Nothing
    /\ snapshot = <<>>
    /\ caches = [c \in {} |-> <<>>]
    /\ threads = [t \in {} |-> <<>>]
    /\ loggers = [l \in {} |-> <<>>]

\* the Epic logins and callbacks of one client, and one run of handle_intent_with_epic
\* for any session id
NextIntent ==
    \/ \E s \in ClientIds : StartEpicLogin(s)
    \/ \E code \in Codes, state \in ClientIds : EpicCallback(code, state)
    \/ \E intent \in Intents, user_record \in UserRecords, s \in SessionIds,
          env \in IntentEnvs : HandleIntentWithEpic(intent, user_record, s, env)

SpecIntent == InitIntent /\ [][NextIntent]_vars

----------------------------------------------------------------------------
(* fhir_appointments.py: FHIRAppointmentClient *)

\* the start and end times a resource can carry
Starts == {None, "2025-01-01T09:00:00Z"}
Ends == {None, "2025-01-01T09:30:00Z"}

\* the value of a resource's key "contained": no such key, an empty list, or a list
\* whose first element is a Slot with or without times
Containeds ==
    {Nothing, Some(<<>>),
     Some(<<[start |-> None, end |-> None]>>),
     Some(<<[start |-> "2025-01-02T10:00:00Z", end |-> "2025-01-02T10:30:00Z"]>>)}

\* the resources of a Bundle entry (a key that is missing reads as None)
Resources ==
    [id : {"a1"}, start : Starts, end : Ends, contained : Containeds]
    \cup {[id |-> None, start |-> None, end |-> None, contained |-> Nothing]}

\* the entries of a Bundle: without a resource, or with one
Entries == {[resource |-> Nothing]} \cup {[resource |-> Some(r)] : r \in Resources}

\* the Bundles Appointment/$find can answer with: without the key "entry", or with a
\* list of at most MaxEntries entries
Bundles ==
    {[entry |-> Nothing]}
    \cup {[entry |-> Some(l)] : l \in UNION {[1..n -> Entries] : n \in 0..MaxEntries}}

\* what Appointment/$find answers: an error status, or a Bundle
FindResponses == {[ok |-> FALSE, bundle |-> [entry |-> Nothing]]}
                 \cup {[ok |-> TRUE, bundle |-> b] : b \in Bundles}

\* line 116: start.replace("T", " ").replace("Z", " UTC")
Human(start) ==
    CASE start = "2025-01-01T09:00:00Z" -> "2025-01-01 09:00:00 UTC"
      [] start = "2025-01-02T10:00:00Z" -> "2025-01-02 10:00:00 UTC"
      [] OTHER -> start

\* lines 101-102: the value at the top level if truthy, else that of the first
\* contained resource if the list is not empty, else None
TimeOf(top, contained, key) ==
    IF top # None
    THEN top
    ELSE IF contained = Nothing \/ contained[1] = <<>>
    THEN None
    ELSE IF key = "start" THEN contained[1][1].start ELSE contained[1][1].end

\* lines 98-118: the simplified entry; `entry.get("resource", {}) or
\* entry.get("resource")` is None for an entry without a resource, and None has no get
Simplified(entry) ==
    IF entry.resource = Nothing
    THEN [raised |-> "AttributeError", slot |-> Nothing]
    ELSE LET resource == entry.resource[1]
             start == TimeOf(resource.start, resource.contained, "start")
             end == TimeOf(resource.end, resource.contained, "end")
         IN  [raised |-> None,
              slot |-> Some([appointment_id |-> resource.id, start |-> start,
                             end |-> end,
                             start_human |-> IF start # None THEN Human(start)
                                             ELSE "unknown"])]

\* FHIRAppointmentClient.find_slots: refused without a token; an error status is
\* raised; else the entries are simplified one after the other, and the exception of
\* one ends the call
FHIRAppointmentClient_find_slots(patient_id, access_token, response) ==
    LET entries == IF response.bundle.entry = Nothing THEN <<>>
                   ELSE response.bundle.entry[1]
        failed == {i \in 1..Len(entries) : Simplified(entries[i]).raised # None}
    IN  IF access_token = None
        THEN [raised |-> "RuntimeError", results |-> <<>>]
        ELSE IF ~response.ok
        THEN [raised |-> "HTTPError", results |-> <<>>]
        ELSE IF failed # {}
        THEN [raised |-> "AttributeError", results |-> <<>>]
        ELSE [raised |-> None,
              results |-> [i \in 1..Len(entries) |-> Simplified(entries[i]).slot[1]]]

\* a call of FHIRAppointmentClient.find_slots(patient_id, access_token)
FindSlots(patient_id, access_token, response) ==
    /\ LET found == FHIRAppointmentClient_find_slots(patient_id, access_token, response) IN
         ret' = [Ret("find_slots", None) EXCEPT
                   !.raised = found.raised,
                   !.read = IF found.raised = None THEN Some(found.results)
                            ELSE Nothing]
    /\ UNCHANGED <<sessions, now, posts, built>>
    /\ UNCHANGED callVars

\* a call of MCP.book_slot(patient_id, slot, token)
BookSlot(patient_id, slot, token, status) ==
    /\ Len(booked) < MaxBooked
    /\ LET booking == book_slot(patient_id, slot, token, status) IN
         /\ booked' = booked \o booking.sent
         /\ ret' = [Ret("book_slot", None) EXCEPT
                      !.raised = booking.raised, !.http = booking.status]
    /\ UNCHANGED <<sessions, now, posts, built>>
    /\ UNCHANGED <<pc, user, session_id, auth_url, attempt, spoken, result, buffer,
                   current_file, files, lookup>>
    /\ UNCHANGED extraVars

\* the calls of the scheduling client, in any order
NextFhir ==
    \/ \E patient_id \in {"p1", None}, access_token \in {"tok1", None},
          response \in FindResponses : FindSlots(patient_id, access_token, response)
    \/ \E patient_id \in {"p1", None}, slot \in {"a1", "a2"},
          token \in {"tok1", None}, status \in BookStatuses :
          BookSlot(patient_id, slot, token, status)

SpecFhir == Init /\ [][NextFhir]_vars

----------------------------------------------------------------------------
(* conversation_logger.py: ConversationLogger; summarizer.py: build_prompt *)

\* who speaks, what is said, and the metadata handed to log (None, an empty dict or
\* a dict with a key)
Roles == {"caller", "agent"}
Messages == {"hello"}
Metadatas == {None, "{}", "{intent}"}

\* start_new, lines 24-25: the file is named by the local time cut to the second
FileName(t) == t

\* log, lines 34-40: the entry, with the key metadata only when the argument is truthy
Entry(t, role, message, metadata) ==
    [timestamp |-> t, role |-> role, message |-> message,
     metadata |-> IF metadata \in {None, "{}"} THEN Nothing ELSE Some(metadata)]

\* _write: nothing without a current file, else the file is opened with "w" and the
\* whole buffer dumped into it
Written(cur, buf, fs) ==
    IF cur = Nothing
    THEN fs
    ELSE [f \in DOMAIN fs \cup {cur[1]} |-> IF f = cur[1] THEN buf ELSE fs[f]]

\* read_log: the list json.load yields, or None when open or json.load raises (no
\* such file, or None for a path)
read_log(file_path, fs) ==
    IF file_path # Nothing /\ file_path[1] \in DOMAIN fs
    THEN Some(fs[file_path[1]])
    ELSE Nothing

\* str.upper of a role
Upper(role) ==
    CASE role = "caller" -> "CALLER"
      [] role = "agent" -> "AGENT"
      [] OTHER -> role

\* Summarizer.build_prompt: one line per item, in the order of the list (the lines
\* are then joined by newlines); iterating over None raises TypeError
build_prompt(transcript_json) ==
    IF transcript_json = Nothing
    THEN [raised |-> "TypeError", lines |-> <<>>]
    ELSE LET items == transcript_json[1] IN
         [raised |-> None,
          lines |-> [i \in 1..Len(items) |->
                       <<items[i].timestamp, Upper(items[i].role), items[i].message>>]]

\* LOGGER.start_new()
StartNew ==
    /\ current_file' = Some(FileName(now))
    /\ buffer' = <<>>
    /\ ret' = Ret("start_new", None)
    /\ UNCHANGED <<sessions, now, posts, built>>
    /\ UNCHANGED <<pc, user, session_id, auth_url, attempt, spoken, result, booked, files,
                   lookup>>
    /\ UNCHANGED extraVars

\* LOGGER.log(role, message, metadata)
Log(role, message, metadata) ==
    /\ Len(buffer) < MaxLog
    /\ buffer' = Append(buffer, Entry(now, role, message, metadata))
    /\ files' = Written(current_file, buffer', files)
    /\ ret' = Ret("log", None)
    /\ UNCHANGED <<sessions, now, posts, built>>
    /\ UNCHANGED <<pc, user, session_id, auth_url, attempt, spoken, result, booked,
                   current_file, lookup>>
    /\ UNCHANGED extraVars

\* LOGGER.read_log(file_path)
ReadLog(file_path) ==
    /\ ret' = [Ret("read_log", None) EXCEPT !.read = read_log(file_path, files)]
    /\ UNCHANGED <<sessions, now, posts, built>>
    /\ UNCHANGED callVars

\* Summarizer.build_prompt of what read_log returned last
BuildPrompt ==
    /\ ret.op = "read_log"
    /\ LET prompt == build_prompt(ret.read) IN
       ret' = [Ret("build_prompt", None) EXCEPT
                 !.raised = prompt.raised, !.read = Some(prompt.lines)]
    /\ UNCHANGED <<sessions, now, posts, built>>
    /\ UNCHANGED callVars

\* the log files a caller of read_log can name
LogFiles == {Nothing} \cup {Some(FileName(t)) : t \in 0..MaxTime}

\* one logger, used for call after call
NextLog ==
    \/ StartNew
    \/ \E role \in Roles, message \in Messages, metadata \in Metadatas :
         Log(role, message, metadata)
    \/ \E file_path \in LogFiles : ReadLog(file_path)
    \/ BuildPrompt
    \/ Tick

SpecLog == Init /\ [][NextLog]_vars

----------------------------------------------------------------------------
(* customer_data.py and mcp_tools/customer_server.py: the validation of a caller *)
(* A text is the sequence of its characters; None is Nothing and a text t is Some(t). *)

DigitChars == {"0", "1", "2", "3", "4", "5", "6", "7", "8", "9"}

\* re.sub(r"\D", "", s)
OnlyDigits(s) == SelectSeq(s, LAMBDA c : c \in DigitChars)

\* s[-n:] for n > 0
LastChars(s, n) == IF Len(s) <= n THEN s ELSE SubSeq(s, Len(s) - n + 1, Len(s))

\* a.endswith(b): true of every a when b is empty
EndsWith(a, b) == Len(b) <= Len(a) /\ SubSeq(a, Len(a) - Len(b) + 1, Len(a)) = b

\* s.strip()
Strip(s) ==
    LET inked == {i \in 1..Len(s) : s[i] # " "} IN
    IF inked = {} THEN <<>>
    ELSE SubSeq(s, CHOOSE i \in inked : \A j \in inked : i <= j,
                   CHOOSE i \in inked : \A j \in inked : j <= i)

\* _normalize_digits and CustomerDataService.normalize_digits: "" for None and ""
normalize_digits(text) == IF text = Nothing THEN <<>> ELSE OnlyDigits(text[1])

\* the date without the rewriting of eight digits
Reformatted_StripOnly(dob) == Strip(dob)

\* customer_data.py lines 68-73 and normalize_dob lines 66-73: eight digits mmddyyyy
\* become mm/dd/yyyy, any other text is stripped only
Reformatted(dob) ==
    LET raw_digits == OnlyDigits(dob) IN
    IF Len(raw_digits) = 8
    THEN SubSeq(raw_digits, 1, 2) \o <<"/">> \o SubSeq(raw_digits, 3, 4) \o <<"/">>
         \o SubSeq(raw_digits, 5, 8)
    ELSE Strip(dob)

\* CustomerDataService.normalize_dob: "" for None and ""
normalize_dob(text) == IF text = Nothing THEN <<>> ELSE Reformatted(text[1])

\* the rows of data/customers.xlsx, read as strings
CustomerRows ==
    <<[first_name |-> "Ann", phone |-> <<"5", "5", "5", "-", "1", "2", "3", "-", "4", "5", "6", "7">>,
       last4ssn |-> <<"9", "8", "7", "6">>, dob |-> <<"1", "1", "/", "1", "0", "/", "1", "9", "8", "6">>],
      [first_name |-> "Bob", phone |-> <<"(", "2", "0", "2", ")", " ", "5", "5", "5", "-", "0", "1", "4", "3">>,
       last4ssn |-> <<"0", "0", "4", "2">>, dob |-> <<"0", "1", "/", "0", "2", "/", "1", "9", "9", "0">>]>>

\* the column phone_norm: the last ten digits of the stored phone
phone_norm(row) == LastChars(OnlyDigits(row.phone), 10)

\* the first row, if any, whose phone_norm ends with the digits given, whose last4ssn
\* equals last4 and whose dob equals dob_norm
FirstMatch(phone_digits, last4, dob_norm) ==
    LET match == {i \in 1..Len(CustomerRows) :
                    /\ EndsWith(phone_norm(CustomerRows[i]), phone_digits)
                    /\ CustomerRows[i].last4ssn = last4
                    /\ CustomerRows[i].dob = dob_norm}
    IN  IF match = {} THEN Nothing
        ELSE Some(CustomerRows[CHOOSE i \in match : \A j \in match : i <= j])

\* customer_data.validate_customer: None without the file; dob_spoken.strip() raises
\* for None
validate_customer(phone_spoken, last4_spoken, dob_spoken, exists) ==
    IF ~exists
    THEN [raised |-> None, customer |-> Nothing]
    ELSE IF dob_spoken = Nothing
    THEN [raised |-> "AttributeError", customer |-> Nothing]
    ELSE [raised |-> None,
          customer |-> FirstMatch(LastChars(normalize_digits(phone_spoken), 10),
                                  LastChars(normalize_digits(last4_spoken), 4),
                                  Reformatted(dob_spoken[1]))]

\* mcp_tools/utils/helpers.py: debug_dump(obj, label="DEBUG") called with the keyword arguments named in keywords:
\* a keyword that is not a parameter raises TypeError before the body runs
debug_dump(keywords) ==
    IF keywords \subseteq {"label"} THEN None ELSE "TypeError"

\* CustomerDataService.validate_customer: None without the data; with them the
\* inputs are normalized, debug_dump is called with tag=..., and the rows are filtered
CustomerDataService_validate_customer(phone, last4, dob, exists) ==
    IF ~exists
    THEN [raised |-> None, customer |-> Nothing]
    ELSE IF debug_dump({"tag"}) # None
    THEN [raised |-> debug_dump({"tag"}), customer |-> Nothing]
    ELSE [raised |-> None,
          customer |-> FirstMatch(LastChars(normalize_digits(phone), 10),
                                  LastChars(normalize_digits(last4), 4),
                                  normalize_dob(dob))]

\* what the caller can say for the phone number (None when nothing was heard)
PhoneInputs ==
    {Nothing,
     Some(<<"5", "5", "5", "-", "1", "2", "3", "-", "4", "5", "6", "7">>),
     Some(<<"+", "1", " ", "5", "5", "5", " ", "1", "2", "3", " ", "4", "5", "6", "7">>),
     Some(<<"4", "5", "6", "7">>),
     Some(<<>>),
     Some(<<"2", "0", "2", " ", "5", "5", "5", " ", "0", "1", "4", "3">>)}

\* what the caller can say for the last four digits of the SSN
Last4Inputs ==
    {Some(<<"9", "8", "7", "6">>),
     Some(<<"9", " ", "8", " ", "7", " ", "6">>),
     Some(<<"0", "0", "4", "2">>)}

\* what the caller can say for the date of birth
DobInputs ==
    {Nothing,
     Some(<<"1", "1", "1", "0", "1", "9", "8", "6">>),
     Some(<<"1", "1", "/", "1", "0", "/", "1", "9", "8", "6">>),
     Some(<<" ", "1", "1", "/", "1", "0", "/", "1", "9", "8", "6", " ">>),
     Some(<<"1", "1", " ", "1", "0", " ", "1", "9", "8", "6">>),
     Some(<<"1", "/", "1", "0", "/", "1", "9", "8", "6">>),
     Some(<<"0", "1", "0", "2", "1", "9", "9", "0">>)}

\* the inputs of one validation
Lookups ==
    [phone : PhoneInputs, last4 : Last4Inputs, dob : DobInputs, exists : BOOLEAN]

\* a call of customer_data.validate_customer(phone, ssn, dob)
ValidateCustomer ==
    /\ lookup # Nothing
    /\ LET found == validate_customer(lookup[1].phone, lookup[1].last4, lookup[1].dob,
                                      lookup[1].exists) IN
         ret' = [Ret("validate_customer", None) EXCEPT
                   !.raised = found.raised, !.read = found.customer]
    /\ UNCHANGED <<sessions, now, posts, built>>
    /\ UNCHANGED callVars

\* a call of CustomerDataService.validate_customer(phone, last4, dob)
ServiceValidateCustomer ==
    /\ lookup # Nothing
    /\ LET found == CustomerDataService_validate_customer(
                        lookup[1].phone, lookup[1].last4, lookup[1].dob,
                        lookup[1].exists) IN
         ret' = [Ret("CustomerDataService.validate_customer", None) EXCEPT
                   !.raised = found.raised, !.read = found.customer]
    /\ UNCHANGED <<sessions, now, posts, built>>
    /\ UNCHANGED callVars

\* the caller has said the three answers
InitValidate ==
    /\ sessions = [s \in {} |-> BareSession]
    /\ now = 0
    /\ posts = 0
    /\ ret = Ret("init", None)
    /\ built = {}
    /\ pc = "idle"
    /\ user = Nothing
    /\ session_id = None
    /\ auth_url = Nothing
    /\ attempt = 0
    /\ spoken = <<>>
    /\ result = None
    /\ buffer = <<>>
    /\ booked = <<>>
    /\ current_file = Nothing
    /\ files = [f \in {} |-> <<>>]
    /\ lookup \in {Some(l) : l \in Lookups}
    /\ snapshot = <<>>
    /\ caches = [c \in {} |-> <<>>]
    /\ threads = [t \in {} |-> <<>>]
    /\ loggers = [l \in {} |-> <<>>]

NextValidate ==
    \/ ValidateCustomer
    \/ ServiceValidateCustomer

SpecValidate == InitValidate /\ [][NextValidate]_vars

----------------------------------------------------------------------------
(* mcp_tools/auth_server.py: AuthTokenCache; mcp_tools/utils/helpers.py: debug_dump *)

\* the AuthTokenCache objects a program constructs, all on the default path
CacheIds == {"c1", "c2"}

\* the expires_in a caller of set_token passes
CacheLifetimes == {0, 1, 2}

\* the dict set_token builds at time t
CachedToken(access_token, refresh_token, expires_in, t) ==
    [access_token |-> access_token, refresh_token |-> refresh_token,
     expires_at |-> t + expires_in]

\* AuthTokenCache._load: self.token stays None when the file does not exist, else it
\* is what json.load reads (the dict json.dump wrote: strings, None and an int)
AuthTokenCache_load(file) == file

\* AuthTokenCache._save: json.dump(self.token) into the file, opened with "w"
AuthTokenCache_save(token) == Some(token)

\* AuthTokenCache.set_token on an object at time t, the file holding `file`: the
\* dict is assigned, debug_dump is called with tag=..., and _save runs after it
set_token(file, access_token, refresh_token, expires_in, t) ==
    LET token == CachedToken(access_token, refresh_token, expires_in, t)
        dump == debug_dump({"tag"}) IN
    IF dump # None
    THEN [token |-> Some(token), file |-> file, raised |-> dump]
    ELSE [token |-> Some(token), file |-> AuthTokenCache_save(token), raised |-> None]

\* AuthTokenCache.get_token on an object whose self.token is `token`, at time t
get_token(token, t) ==
    IF token = Nothing THEN None
    ELSE IF t >= token[1].expires_at THEN None
    ELSE token[1].access_token

\* AuthTokenCache(): a new object, its token loaded from the file
NewCache(c) ==
    /\ c \notin DOMAIN caches
    /\ caches' = [x \in DOMAIN caches \cup {c} |->
                    IF x = c THEN AuthTokenCache_load(snapshot) ELSE caches[x]]
    /\ ret' = Ret("AuthTokenCache", c)
    /\ UNCHANGED <<sessions, now, posts, built>>
    /\ UNCHANGED <<pc, user, session_id, auth_url, attempt, spoken, result, buffer, booked,
                   current_file, files, lookup, snapshot, threads, loggers>>

\* c.set_token(access_token, refresh_token, expires_in)
SetToken(c, access_token, refresh_token, expires_in) ==
    /\ c \in DOMAIN caches
    /\ LET run == set_token(snapshot, access_token, refresh_token, expires_in, now) IN
         /\ caches' = [caches EXCEPT ![c] = run.token]
         /\ snapshot' = run.file
         /\ ret' = [Ret("set_token", c) EXCEPT !.raised = run.raised]
    /\ UNCHANGED <<sessions, now, posts, built>>
    /\ UNCHANGED <<pc, user, session_id, auth_url, attempt, spoken, result, buffer, booked,
                   current_file, files, lookup, threads, loggers>>

\* c.get_token()
GetToken(c) ==
    /\ c \in DOMAIN caches
    /\ ret' = [Ret("get_token", c) EXCEPT !.val = get_token(caches[c], now)]
    /\ UNCHANGED <<sessions, now, posts, built>>
    /\ UNCHANGED callVars

\* the token caches of a process and of the one started after it, over time
NextCache ==
    \/ \E c \in CacheIds : NewCache(c)
    \/ \E c \in CacheIds, access_token \in AccessTokens, refresh_token \in RefreshTokens,
          expires_in \in CacheLifetimes :
          SetToken(c, access_token, refresh_token, expires_in)
    \/ \E c \in CacheIds : GetToken(c)
    \/ Tick

SpecCache == Init /\ [][NextCache]_vars

----------------------------------------------------------------------------
(* epic_oauth.py: the four writing operations, called for two sessions in any order *)

\* the answers of the token endpoint to the calls of two sessions: not 2xx, a token
\* that names a patient, and another token that names none (both stale at once, so
\* that a refresh can follow)
FrameAnswers ==
    {ErrorAnswer,
     [ok |-> TRUE,
      body |-> Some(TokenResponse("tok1", "r1", Some(1),
                      [epic_patient |-> None, patient |-> "p1", id_token |-> Nothing]))],
     [ok |-> TRUE,
      body |-> Some(TokenResponse("tok2", "r1", Some(1),
                      [epic_patient |-> None, patient |-> None, id_token |-> Nothing]))]}

\* redeem_code_for_token(code, s), the token endpoint answering `answer`
RedeemAnswered(code, s, answer) ==
    LET done == redeem_code_for_token(code, s, answer) IN
    /\ posts + done.sent <= MaxPosts
    /\ done.sent = 0 => answer = ErrorAnswer
    /\ sessions' = done.sessions
    /\ ret' = done.ret
    /\ posts' = posts + done.sent
    /\ UNCHANGED <<now, built>>
    /\ UNCHANGED callVars

\* get_valid_access_token(s), the token endpoint answering `answer`
RefreshAnswered(s, answer) ==
    LET done == get_valid_access_token(s, answer) IN
    /\ posts + done.sent <= MaxPosts
    /\ done.sent = 0 => answer = ErrorAnswer
    /\ sessions' = done.sessions
    /\ ret' = done.ret
    /\ posts' = posts + done.sent
    /\ UNCHANGED <<now, built>>
    /\ UNCHANGED callVars

NextFrame ==
    \/ \E s \in SessionIds : CreateSession(s)
    \/ \E s \in SessionIds : BuildAuthorizeUrl(s)
    \/ \E s \in SessionIds, code \in Codes, answer \in FrameAnswers :
         RedeemAnswered(code, s, answer)
    \/ \E s \in SessionIds, answer \in FrameAnswers : RefreshAnswered(s, answer)
    \/ Tick

SpecFrame == Init /\ [][NextFrame]_vars

----------------------------------------------------------------------------
(* epic_oauth.py: redeem_code_for_token and get_valid_access_token run by the  *)
(* threads of the Flask server; a thread can be suspended between two          *)
(* statements, and is while it waits for the token endpoint                    *)

\* the threads serving requests and calls
ThreadIds == {"t1", "t2"}

\* a call that a thread has begun: where it is suspended (at), the number of
\* requests sent to the token endpoint when it read the session (began), its locals
\* refresh and tok/newtok (body), whether it sent a request, and how it ended
ThreadAt(op, s, at) ==
    [op |-> op, sid |-> s, at |-> at, began |-> posts, refresh |-> None,
     body |-> Nothing, sent |-> 0, val |-> None, raised |-> None]

Idle(t) ==
    IF t \in DOMAIN threads THEN threads[t].at \in {"returned", "raised"} ELSE TRUE

SetThread(t, rec) ==
    [x \in DOMAIN threads \cup {t} |-> IF x = t THEN rec ELSE threads[x]]

\* get_valid_access_token, lines 148-157: the session and its token are read, and
\* the call returns unless the token is stale and has a refresh token
RefreshCheck(t, s) ==
    /\ Idle(t)
    /\ LET call == ThreadAt("get_valid_access_token", s, "returned") IN
       threads' = SetThread(t,
           IF ~Known(s) \/ sessions[s].token = Nothing THEN call
           ELSE IF StillValid(sessions[s].token[1], now)
           THEN [call EXCEPT !.val = sessions[s].token[1].access_token]
           ELSE IF sessions[s].token[1].refresh_token = None THEN call
           ELSE [call EXCEPT !.at = "refresh_post",
                             !.refresh = sessions[s].token[1].refresh_token])
    /\ UNCHANGED storeVars
    /\ UNCHANGED <<pc, user, session_id, auth_url, attempt, spoken, result, buffer, booked,
                   current_file, files, lookup, snapshot, caches, loggers>>

\* get_valid_access_token, lines 171-173: the request is sent and answered
RefreshPost(t, answer) ==
    /\ t \in DOMAIN threads
    /\ threads[t].at = "refresh_post"
    /\ posts < MaxPosts
    /\ posts' = posts + 1
    /\ threads' = SetThread(t,
           IF answer.ok
           THEN [threads[t] EXCEPT !.at = "refresh_store", !.body = answer.body,
                                   !.sent = 1]
           ELSE [threads[t] EXCEPT !.at = "raised", !.raised = "HTTPError", !.sent = 1])
    /\ UNCHANGED <<sessions, now, ret, built>>
    /\ UNCHANGED <<pc, user, session_id, auth_url, attempt, spoken, result, buffer, booked,
                   current_file, files, lookup, snapshot, caches, loggers>>

\* get_valid_access_token, lines 174-183: the new token is stored and returned
RefreshStoreStep(t) ==
    /\ t \in DOMAIN threads
    /\ threads[t].at = "refresh_store"
    /\ LET s == threads[t].sid
           newtok == threads[t].body[1] IN
         /\ sessions' = Put(s, RefreshStore(s, newtok))
         /\ threads' = SetThread(t,
                IF RederivePatient(newtok).raised # None
                THEN [threads[t] EXCEPT !.at = "raised",
                                        !.raised = RederivePatient(newtok).raised]
                ELSE [threads[t] EXCEPT !.at = "returned",
                                        !.val = newtok.access_token])
    /\ UNCHANGED <<now, posts, ret, built>>
    /\ UNCHANGED <<pc, user, session_id, auth_url, attempt, spoken, result, buffer, booked,
                   current_file, files, lookup, snapshot, caches, loggers>>

\* redeem_code_for_token, lines 86-92: the session and its verifier are read
RedeemCheck(t, code, s) ==
    /\ Idle(t)
    /\ threads' = SetThread(t,
           IF RedeemRefusal(s) # None
           THEN [ThreadAt("redeem_code_for_token", s, "raised") EXCEPT
                   !.raised = RedeemRefusal(s)]
           ELSE ThreadAt("redeem_code_for_token", s, "redeem_post"))
    /\ UNCHANGED storeVars
    /\ UNCHANGED <<pc, user, session_id, auth_url, attempt, spoken, result, buffer, booked,
                   current_file, files, lookup, snapshot, caches, loggers>>

\* redeem_code_for_token, lines 110-112: the request is sent and answered
RedeemPost(t, answer) ==
    /\ t \in DOMAIN threads
    /\ threads[t].at = "redeem_post"
    /\ posts < MaxPosts
    /\ posts' = posts + 1
    /\ threads' = SetThread(t,
           IF answer.ok
           THEN [threads[t] EXCEPT !.at = "redeem_store", !.body = answer.body,
                                   !.sent = 1]
           ELSE [threads[t] EXCEPT !.at = "raised", !.raised = "HTTPError", !.sent = 1])
    /\ UNCHANGED <<sessions, now, ret, built>>
    /\ UNCHANGED <<pc, user, session_id, auth_url, attempt, spoken, result, buffer, booked,
                   current_file, files, lookup, snapshot, caches, loggers>>

\* redeem_code_for_token, lines 115-116: sess["token"] = tok
RedeemStoreToken(t) ==
    /\ t \in DOMAIN threads
    /\ threads[t].at = "redeem_store"
    /\ LET s == threads[t].sid IN
       sessions' = Put(s, [sessions[s] EXCEPT
                             !.token = Some(StoredToken(threads[t].body[1], now))])
    /\ threads' = SetThread(t, [threads[t] EXCEPT !.at = "redeem_derive"])
    /\ UNCHANGED <<now, posts, ret, built>>
    /\ UNCHANGED <<pc, user, session_id, auth_url, attempt, spoken, result, buffer, booked,
                   current_file, files, lookup, snapshot, caches, loggers>>

\* redeem_code_for_token, lines 118-138: the patient id is derived and stored
RedeemDerive(t) ==
    /\ t \in DOMAIN threads
    /\ threads[t].at = "redeem_derive"
    /\ LET s == threads[t].sid
           derived == DerivePatient(threads[t].body[1]) IN
         /\ sessions' = IF derived.raised = None /\ derived.patient # None
                        THEN Put(s, [sessions[s] EXCEPT
                                       !.fhir_patient_id = derived.patient])
                        ELSE sessions
         /\ threads' = SetThread(t,
                IF derived.raised # None
                THEN [threads[t] EXCEPT !.at = "raised", !.raised = derived.raised]
                ELSE [threads[t] EXCEPT !.at = "returned",
                                        !.val = threads[t].body[1].access_token])
    /\ UNCHANGED <<now, posts, ret, built>>
    /\ UNCHANGED <<pc, user, session_id, auth_url, attempt, spoken, result, buffer, booked,
                   current_file, files, lookup, snapshot, caches, loggers>>

\* one login; then redemptions and refreshes by two threads, statement by statement,
\* while the session is polled
NextThreads ==
    \/ \E s \in ClientIds : StartEpicLogin(s)
    \/ \E t \in ThreadIds, code \in Codes, s \in ClientIds : RedeemCheck(t, code, s)
    \/ \E t \in ThreadIds, answer \in FrameAnswers : RedeemPost(t, answer)
    \/ \E t \in ThreadIds : RedeemStoreToken(t)
    \/ \E t \in ThreadIds : RedeemDerive(t)
    \/ \E t \in ThreadIds, s \in ClientIds : RefreshCheck(t, s)
    \/ \E t \in ThreadIds, answer \in FrameAnswers : RefreshPost(t, answer)
    \/ \E t \in ThreadIds : RefreshStoreStep(t)
    \/ \E s \in ClientIds : HasToken(s)
    \/ \E s \in ClientIds : GetFhirPatientId(s)
    \/ Tick

SpecThreads == Init /\ [][NextThreads]_vars

----------------------------------------------------------------------------
(* conversation_logger.py: the ConversationLogger objects of two calls, all on the *)
(* directory logs/                                                               *)

\* the loggers of the calls going on together (ivr_agent.LOGGER, AI_IVR.LOGGER and
\* conversation_logger.logger are three such objects of one process)
LoggerIds == {"l1", "l2"}

\* what the calls log: who speaks, each logger saying a text of its own
LoggerMessage(l) == IF l = "l1" THEN "hello" ELSE "goodbye"

SetLogger(l, fields) ==
    [x \in DOMAIN loggers \cup {l} |-> IF x = l THEN fields ELSE loggers[x]]

\* ConversationLogger(): lines 14-18
NewLogger(l) ==
    /\ l \notin DOMAIN loggers
    /\ loggers' = SetLogger(l, [current_file |-> Nothing, buffer |-> <<>>])
    /\ ret' = Ret("ConversationLogger", l)
    /\ UNCHANGED <<sessions, now, posts, built>>
    /\ UNCHANGED <<pc, user, session_id, auth_url, attempt, spoken, result, buffer, booked,
                   current_file, files, lookup, snapshot, caches, threads>>

\* l.start_new(): lines 23-28
LoggerStartNew(l) ==
    /\ l \in DOMAIN loggers
    /\ loggers' = SetLogger(l, [current_file |-> Some(FileName(now)), buffer |-> <<>>])
    /\ ret' = Ret("start_new", l)
    /\ UNCHANGED <<sessions, now, posts, built>>
    /\ UNCHANGED <<pc, user, session_id, auth_url, attempt, spoken, result, buffer, booked,
                   current_file, files, lookup, snapshot, caches, threads>>

\* l.log(role, message): lines 33-53, the entry appended and the buffer written
LoggerLog(l, role, message) ==
    /\ l \in DOMAIN loggers
    /\ Len(loggers[l].buffer) < MaxLog
    /\ LET appended == Append(loggers[l].buffer, Entry(now, role, message, None)) IN
         /\ loggers' = SetLogger(l, [loggers[l] EXCEPT !.buffer = appended])
         /\ files' = Written(loggers[l].current_file, appended, files)
    /\ ret' = Ret("log", l)
    /\ UNCHANGED <<sessions, now, posts, built>>
    /\ UNCHANGED <<pc, user, session_id, auth_url, attempt, spoken, result, buffer, booked,
                   current_file, lookup, snapshot, caches, threads>>

\* two loggers, each used for call after call, over time
NextLoggers ==
    \/ \E l \in LoggerIds : NewLogger(l)
    \/ \E l \in LoggerIds : LoggerStartNew(l)
    \/ \E l \in LoggerIds, role \in Roles : LoggerLog(l, role, LoggerMessage(l))
    \/ Tick

SpecLoggers == Init /\ [][NextLoggers]_vars

----------------------------------------------------------------------------
(* Properties of the authorization client, checked under Spec *)

\* C1: redeem_code_for_token for a session that exists and for which
\* build_authorize_url never ran raises the missing-verifier error, sends nothing to
\* the token endpoint, and leaves the session's token absent.
C1_RedeemWithoutVerifierFails ==
    [][\A s \in SessionIds, code \in Codes :
         (/\ Known(s)
          /\ s \notin built
          /\ ret'.op = "redeem_code_for_token"
          /\ RedeemCodeForToken(code, s))
           => /\ ret'.raised = "MissingVerifier"
              /\ ret'.posted = None
              /\ sessions'[s].token = Nothing]_vars

C1_Witness ==
    /\ ret.op = "redeem_code_for_token"
    /\ ret.raised = "MissingVerifier"
    /\ Known(ret.sid)
    /\ ret.sid \notin built
    /\ sessions[ret.sid].token = Nothing

\* C2 as stated: with a token stored, get_valid_access_token returns the cached access
\* token without a request while now < expires_at - 10, and from then on each call
\* sends exactly one refresh request to the token endpoint.
C2_CachedElseOneRefresh ==
    [][\A s \in SessionIds :
         (/\ Known(s)
          /\ sessions[s].token # Nothing
          /\ ret'.op = "get_valid_access_token"
          /\ GetValidAccessToken(s))
           => LET tok == sessions[s].token[1] IN
              IF now < tok.expires_at - SafetyMargin
              THEN ret'.val = tok.access_token /\ ret'.posted = None /\ posts' = posts
              ELSE ret'.posted = "refresh_token" /\ posts' = posts + 1]_vars

\* C2 amended: as C2, but from expires_at - 10 on the call sends exactly one refresh
\* request only when a refresh token is stored; with none stored it sends nothing and
\* returns None.
C2_CachedElseOneRefreshIfRefreshToken ==
    [][\A s \in SessionIds :
         (/\ Known(s)
          /\ sessions[s].token # Nothing
          /\ ret'.op = "get_valid_access_token"
          /\ GetValidAccessToken(s))
           => LET tok == sessions[s].token[1] IN
              IF now < tok.expires_at - SafetyMargin
              THEN ret'.val = tok.access_token /\ ret'.posted = None /\ posts' = posts
              ELSE IF tok.refresh_token = None
              THEN ret'.val = None /\ ret'.posted = None /\ posts' = posts
              ELSE ret'.posted = "refresh_token" /\ posts' = posts + 1]_vars

C2_Witness ==
    /\ ret.op = "get_valid_access_token"
    /\ ret.posted = "refresh_token"
    /\ ret.http = "2xx"
    /\ ret.raised = None
    /\ now > 0

\* C3: when the stored token is expired and the refresh fails (the token endpoint
\* does not answer 2xx, or no refresh token is stored), get_valid_access_token returns
\* None and raises nothing.
C3_FailedRefreshReturnsNone ==
    [][\A s \in SessionIds :
         (/\ Known(s)
          /\ sessions[s].token # Nothing
          /\ now >= sessions[s].token[1].expires_at - SafetyMargin
          /\ (ret'.http = "error" \/ sessions[s].token[1].refresh_token = None)
          /\ ret'.op = "get_valid_access_token"
          /\ GetValidAccessToken(s))
           => ret'.raised = None /\ ret'.val = None]_vars

\* C7: after redeem_code_for_token returned a token response with expires_in 3600,
\* the next call of get_valid_access_token for that session returns the response's
\* access token.
C7_RedeemedTokenVisible ==
    [][\A s \in SessionIds :
         (/\ ret.op = "redeem_code_for_token"
          /\ ret.sid = s
          /\ ret.raised = None
          /\ ret.tok # Nothing
          /\ ret.tok[1].expires_in = Some(DefaultExpiresIn)
          /\ ret'.op = "get_valid_access_token"
          /\ GetValidAccessToken(s))
           => /\ ret'.raised = None
              /\ ret'.val = ret.tok[1].access_token
              /\ ret'.posted = None]_vars

C7_Witness ==
    /\ ret.op = "get_valid_access_token"
    /\ ret.val \in AccessTokens
    /\ ret.posted = None
    /\ posts = 1
    /\ Known(ret.sid)
    /\ sessions[ret.sid].token # Nothing
    /\ sessions[ret.sid].token[1].expires_at >= DefaultExpiresIn

\* C8: every authorize URL built carries a state parameter, and that state is the id
\* of the session in which the verifier of the URL's challenge was stored.
C8_UrlStateIsSession ==
    ret.url # Nothing
      => /\ ret.url[1].state # None
         /\ Known(ret.url[1].state)
         /\ S256(sessions[ret.url[1].state].pkce_verifier) = ret.url[1].code_challenge

\* C9 as stated: once a session holds a verifier, no operation changes it.
C9_VerifierNeverChanges ==
    [][\A s \in SessionIds :
         (Known(s) /\ sessions[s].pkce_verifier # None)
           => Known(s)' /\ sessions'[s].pkce_verifier = sessions[s].pkce_verifier]_vars

\* C9 amended: once a session holds a verifier, only build_authorize_url (which stores
\* a newly generated one) and create_session (which makes the session anew) for that
\* session id change it; redeem_code_for_token, has_token, get_valid_access_token and
\* get_fhir_patient_id leave it as it is.
C9_VerifierChangedOnlyByBuildOrCreate ==
    [][\A s \in SessionIds :
         (Known(s) /\ sessions[s].pkce_verifier # None)
           => /\ Known(s)'
              /\ \/ sessions'[s].pkce_verifier = sessions[s].pkce_verifier
                 \/ /\ ret'.op = "build_authorize_url"
                    /\ ret'.sid = s
                    /\ sessions'[s].pkce_verifier \in Verifiers
                 \/ /\ ret'.op = "create_session"
                    /\ ret'.sid = s
                    /\ sessions'[s].pkce_verifier = None]_vars

\* a session that holds a verifier has redeemed a code and still holds the verifier
C9_Witness ==
    /\ ret.op = "redeem_code_for_token"
    /\ ret.raised = None
    /\ Known(ret.sid)
    /\ sessions[ret.sid].pkce_verifier # None
    /\ sessions[ret.sid].token # Nothing

\* C10 as stated: build_authorize_url for an id no session was created for fails with
\* the unknown-session error and adds no session.
C10_BuildUnknownFails ==
    [][\A s \in SessionIds :
         (~Known(s) /\ ret'.op = "build_authorize_url" /\ BuildAuthorizeUrl(s))
           => ret'.raised = "UnknownSession" /\ sessions' = sessions]_vars

\* C10 amended: build_authorize_url for an id no session was created for does not
\* fail: it adds a session that holds the new verifier and nothing else (no token, no
\* patient id) and returns the URL with state = that id and the verifier's challenge.
C10_BuildUnknownAddsSession ==
    [][\A s \in SessionIds :
         (~Known(s) /\ ret'.op = "build_authorize_url" /\ BuildAuthorizeUrl(s))
           => /\ ret'.raised = None
              /\ DOMAIN sessions' = DOMAIN sessions \cup {s}
              /\ sessions'[s].pkce_verifier \in Verifiers
              /\ sessions'[s].token = Nothing
              /\ sessions'[s].fhir_patient_id = None
              /\ sessions'[s].created_at = Nothing
              /\ ret'.url = Some(AuthorizeUrl(s, S256(sessions'[s].pkce_verifier)))]_vars

C10_Witness ==
    /\ ret.op = "build_authorize_url"
    /\ Known(ret.sid)
    /\ sessions[ret.sid].created_at = Nothing
    /\ sessions[ret.sid].pkce_verifier # None

----------------------------------------------------------------------------
(* Properties of the call flow, checked under SpecCall *)

\* C4: no exception leaves simulate_call_flow: no call ends with an exception raised
\* out of the call flow, and /start_call never answers with the error status.
C4_NoExceptionLeavesCallFlow ==
    /\ pc # "raised"
    /\ ret.op = "start_call" => ret.status = "200"

\* C5: when the call's session holds a token at a poll, that poll sees it and the call
\* goes on to the Epic intent routing.
C5_PollSeesToken ==
    [][(pc = "poll_check" /\ has_token(session_id) /\ pc' # "poll_check")
         => pc' = "epic_intent"]_vars

\* C6: while the session holds no token, each poll leads to the next sleep, and the call
\* leaves the polling loop for the manual mode only after PollAttempts polls.
C6_BoundedPollThenManual ==
    [][/\ (pc = "poll_check" /\ ~has_token(session_id) /\ pc' # "poll_check")
            => pc' = "poll_sleep"
       /\ (pc = "poll_sleep" /\ pc' = "manual") => attempt = PollAttempts]_vars

\* C11: the OAuth callback (and redeem_code_for_token, which it invokes) with a code and
\* a state that names no session of the store fails with the unknown-session error,
\* sends no request to the token endpoint, adds no session and stores no token.
C11_CallbackUnknownSessionRefused ==
    [][\A state \in SessionIds, code \in Codes :
         (/\ ~Known(state)
          /\ ret'.op = "epic_callback"
          /\ EpicCallback(code, state))
           => /\ ret'.raised = "UnknownSession"
              /\ ret'.status = "500"
              /\ ret'.posted = None
              /\ posts' = posts
              /\ sessions' = sessions]_vars

C11_Witness ==
    /\ ret.op = "epic_callback"
    /\ ret.raised = "UnknownSession"
    /\ ret.sid \in SessionIds
    /\ ~Known(ret.sid)
    /\ session_id \in SessionIds
    /\ session_id # ret.sid

----------------------------------------------------------------------------
(* Properties of the session store, checked under Spec *)

\* C12: in every reachable state the token of each session is either absent or fully
\* populated: a stored token carries a non-empty access token and an expiry.
C12_TokenAbsentOrPopulated ==
    \A s \in DOMAIN sessions :
        sessions[s].token # Nothing
          => /\ sessions[s].token[1].access_token # None
             /\ sessions[s].token[1].expires_at \in Nat

\* C13: has_token, and the route /poll_auth, never change the state: a call of either,
\* for a known or an unknown session id, leaves the session store as it is, and a call
\* that follows a call of the same operation for the same id gives the same answer.
C13_HasTokenReadsOnly ==
    [][\A s \in SessionIds :
         (/\ ret'.op \in {"has_token", "poll_auth"}
          /\ ret'.sid = s
          /\ (HasToken(s) \/ PollAuth(s)))
           => /\ sessions' = sessions
              /\ built' = built
              /\ posts' = posts
              /\ (ret.op = ret'.op /\ ret.sid = s) => ret' = ret]_vars

C13_Witness ==
    /\ ret.op = "has_token"
    /\ ret.val = "True"
    /\ Known(ret.sid)
    /\ sessions[ret.sid].token # Nothing

\* C14: has_token answers True exactly when the session holds a token with a non-empty
\* access token, whatever the token's age: also once its expiry time has passed.
C14_HasTokenIffAccessToken ==
    [][\A s \in SessionIds :
         (ret'.op = "has_token" /\ ret'.sid = s /\ HasToken(s))
           => ret'.val = PyBool(/\ Known(s)
                                /\ sessions[s].token # Nothing
                                /\ sessions[s].token[1].access_token # None)]_vars

C14_Witness ==
    /\ ret.op = "has_token"
    /\ ret.val = "True"
    /\ Known(ret.sid)
    /\ sessions[ret.sid].token # Nothing
    /\ now >= sessions[ret.sid].token[1].expires_at

\* an identity token that names no patient: absent, without a ".", with a middle
\* segment that does not decode to a JSON object, or with no fhirUser that holds
\* "/Patient/"
NamesNoPatient(id_token) ==
    \/ id_token = Nothing
    \/ ~id_token[1].dotted
    \/ id_token[1].segment.kind # "object"
    \/ id_token[1].segment.fhirUser \notin {"https://fhir/Patient/p1"}

\* C26: a redemption whose 2xx token response has no patient key and an identity
\* token that names no patient returns the token without raising and leaves the
\* session's patient id as it was.
C26_BadIdTokenIsNotFatal ==
    [][\A s \in SessionIds, code \in Codes, answer \in HttpAnswers :
         (/\ ret'.op = "redeem_code_for_token"
          /\ answer.ok
          /\ RedeemRefusal(s) = None
          /\ answer.body[1].epic_patient = None
          /\ answer.body[1].patient = None
          /\ NamesNoPatient(answer.body[1].id_token)
          /\ sessions' = redeem_code_for_token(code, s, answer).sessions
          /\ ret' = redeem_code_for_token(code, s, answer).ret)
             => /\ ret'.raised = None
                /\ ret'.tok # Nothing
                /\ sessions'[s].fhir_patient_id = sessions[s].fhir_patient_id]_vars

\* C35: an answer of the token endpoint that is not 2xx leaves the session store as
\* it was: after a failed redeem_code_for_token or a failed refresh in
\* get_valid_access_token every session has the verifier, token, expiry and patient
\* id it had before, and the call raised.
C35_FailedRequestKeepsSession ==
    [][(/\ ret'.op \in {"redeem_code_for_token", "get_valid_access_token"}
        /\ ret'.http = "error")
       => /\ ret'.raised = "HTTPError"
          /\ DOMAIN sessions' = DOMAIN sessions
          /\ \A s \in DOMAIN sessions : sessions'[s] = sessions[s]]_vars

\* a refresh was refused for a session that holds a token and a patient id
C35_Witness ==
    /\ ret.op = "get_valid_access_token"
    /\ ret.http = "error"
    /\ ret.sid \in DOMAIN sessions
    /\ sessions[ret.sid].token # Nothing
    /\ sessions[ret.sid].fhir_patient_id # None

----------------------------------------------------------------------------
(* Properties of the call flow, checked under SpecCall *)

\* C15: in a call the identity is verified once, after the prompts for the phone number,
\* the last four digits of the SSN and the date of birth, in that order; when the
\* validator finds no record the call ends there: no offer of the Epic connection, no
\* session, no intent routing.
C15_SingleIdentityAttempt ==
    pc \notin {"idle", "authenticate"}
      => /\ Len(spoken) >= 5
         /\ SubSeq(spoken, 1, 4) = <<"Incoming call. Connecting now.">> \o IdentityPrompts
         /\ \A i \in 5..Len(spoken) : \A j \in 1..3 : spoken[i] # IdentityPrompts[j]
         /\ user = Nothing
              => /\ spoken = <<"Incoming call. Connecting now.">> \o IdentityPrompts
                               \o <<"Authentication failed.">>
                 /\ result = "Authentication failed."
                 /\ pc \in {"returned", "answered"}
                 /\ session_id = None
                 /\ auth_url = Nothing
                 /\ DOMAIN sessions = {}

C15_Witness ==
    /\ pc = "answered"
    /\ user = Nothing
    /\ result = "Authentication failed."
    /\ ret.status = "200"

\* C20: every prompt spoken so far in the call is held by the conversation log: at any
\* state the log has an entry for each text the call has spoken.
C20_SpokenIsLogged ==
    \A i \in 1..Len(spoken) : \E j \in 1..Len(buffer) : buffer[j].message = spoken[i]

----------------------------------------------------------------------------
(* Properties of handle_intent_with_epic, checked under SpecIntent *)

\* the ordinal an answer names: 0 when it names none
OrdinalOf(choice) ==
    IF choice \in {"1", "one"} THEN 1
    ELSE IF choice \in {"2", "two"} THEN 2
    ELSE IF choice = "3" THEN 3
    ELSE 0

\* the number of options presented for a list of slots
Presented(slots) == IF Len(slots) < 3 THEN Len(slots) ELSE 3

\* C16: when the slot search returns three slots and the caller says "two", the run
\* of the handler submits one booking request, for the second slot.
C16_TwoSelectsSecond ==
    [][ret'.op = "handle_intent_with_epic"
         => \A user_record \in UserRecords, s \in SessionIds, env \in IntentEnvs :
              (/\ env.find.ok
               /\ Len(env.find.slots) = 3
               /\ env.choice = "two"
               /\ HandleIntentWithEpic("doctor_schedule", user_record, s, env))
                => /\ Len(booked') = Len(booked) + 1
                   /\ booked'[Len(booked')].slot = env.find.slots[2]]_vars

\* C17: the selection fails closed: a run of the handler submits a booking request only
\* when the caller's answer is an ordinal that names one of the options presented, and
\* for any other answer to the options it says that no appointment is booked, returns,
\* and submits none.
C17_SelectionFailsClosed ==
    [][ret'.op = "handle_intent_with_epic"
         => \A user_record \in UserRecords, s \in SessionIds, env \in IntentEnvs :
              (/\ env.find.ok
               /\ env.find.slots # <<>>
               /\ HandleIntentWithEpic("doctor_schedule", user_record, s, env))
                => IF OrdinalOf(env.choice) \in 1..Presented(env.find.slots)
                   THEN \A i \in (Len(booked) + 1)..Len(booked') :
                            booked'[i].slot = env.find.slots[OrdinalOf(env.choice)]
                   ELSE /\ booked' = booked
                        /\ ret'.raised = None
                        /\ Len(spoken') > 0
                        /\ spoken'[Len(spoken')] = "No appointment booked."]_vars

\* C18: when the booking request fails, the run of the handler says that the booking
\* failed and returns, without a summary, an email or a second booking request.
C18_FailedBookingApologised ==
    [][ret'.op = "handle_intent_with_epic"
         => \A user_record \in UserRecords, s \in SessionIds, env \in IntentEnvs :
              (/\ env.find.ok
               /\ env.find.slots # <<>>
               /\ env.choice = "1"
               /\ env.book # "200"
               /\ HandleIntentWithEpic("doctor_schedule", user_record, s, env))
                => /\ ret'.raised = None
                   /\ Len(booked') <= Len(booked) + 1
                   /\ Len(spoken') > 0
                   /\ spoken'[Len(spoken')] = "Error booking the appointment."]_vars

\* C19: when the booking succeeds and the delivery of the confirmation email fails, the
\* run of the handler tells the caller that the email failed, not that it was sent, and
\* the booking request stays submitted.
C19_EmailFailureReported ==
    [][ret'.op = "handle_intent_with_epic"
         => \A user_record \in UserRecords, s \in SessionIds, env \in IntentEnvs :
              (/\ env.find.ok
               /\ env.find.slots # <<>>
               /\ env.choice = "1"
               /\ env.book = "200"
               /\ ~env.smtp
               /\ user_record.email # None
               /\ has_token(s)
               /\ HandleIntentWithEpic("doctor_schedule", user_record, s, env))
                => /\ Len(booked') = Len(booked) + 1
                   /\ \E i \in 1..Len(spoken') : spoken'[i] = "Email sending failed."
                   /\ \A i \in 1..Len(spoken') : spoken'[i] # "Confirmation email sent."]_vars

\* C24: for a session that holds a token and an intent other than doctor_schedule,
\* handle_intent_with_epic speaks and ends as handle_intent_and_respond does for
\* that intent and caller.
C24_NonSchedulingAsManual ==
    [][\A intent \in Intents \ {"doctor_schedule"}, user_record \in UserRecords,
          s \in SessionIds, env \in IntentEnvs :
         (/\ Known(s)
          /\ sessions[s].token # Nothing
          /\ HandleIntentWithEpic(intent, user_record, s, env))
             => \E done \in handle_intent_and_respond(intent, user_record) :
                   /\ spoken' = spoken \o done.said
                   /\ result' = done.raised]_vars

\* C29: when the slot search of a run of the handler is answered without any entry,
\* the search yields the empty list, the run tells the caller that no slots are
\* available, and no booking request is sent.
C29_NoEntriesNoBooking ==
    [][ret'.op = "handle_intent_with_epic"
         => \A user_record \in UserRecords, s \in SessionIds, env \in IntentEnvs :
              (/\ env.find.ok
               /\ env.find.slots = <<>>
               /\ HandleIntentWithEpic("doctor_schedule", user_record, s, env))
                => /\ ret'.raised = None
                   /\ booked' = booked
                   /\ Len(spoken') > 0
                   /\ spoken'[Len(spoken')] = "No slots available."]_vars

----------------------------------------------------------------------------
(* Properties of the scheduling client, checked under SpecFhir *)

\* the start time the normalization is to give an entry: that of the top level of its
\* resource, else that of its embedded resource, else none ("unknown" when shown)
StartOf(entry) ==
    IF entry.resource = Nothing THEN None
    ELSE IF entry.resource[1].start # None THEN entry.resource[1].start
    ELSE IF entry.resource[1].contained \notin {Nothing, Some(<<>>)}
    THEN entry.resource[1].contained[1][1].start
    ELSE None

\* C28: find_slots, answered with a Bundle, raises for no shape of entry, and gives
\* each entry the start of its resource's top level if present, else that of the
\* embedded resource, else the marker "unknown".
C28_NormalizationNeverRaises ==
    [][\A response \in FindResponses :
         (/\ ret'.op = "find_slots"
          /\ response.ok
          /\ response.bundle.entry # Nothing
          /\ FindSlots("p1", "tok1", response))
             => /\ ret'.raised = None
                /\ ret'.read # Nothing
                /\ Len(ret'.read[1]) = Len(response.bundle.entry[1])
                /\ \A i \in 1..Len(response.bundle.entry[1]) :
                      ret'.read[1][i].start_human
                        = IF StartOf(response.bundle.entry[1][i]) = None THEN "unknown"
                          ELSE Human(StartOf(response.bundle.entry[1][i]))]_vars

\* C22: when Appointment/$book answers that the slot is taken already (409), book_slot
\* ends with the outcome BookingConflict, which is not the outcome of another failed
\* booking.
C22_ConflictIsTyped ==
    [][ret'.op = "book_slot" /\ ret'.http = "409"
         => ret'.raised = "BookingConflict"]_vars

----------------------------------------------------------------------------
(* Properties of the conversation log, checked under SpecLog *)

\* C21: once a call's log is started, reading the call's file back yields exactly the
\* entries logged since, in the order they were logged, and the transcript built from
\* what was read has one line per entry in that order.
C21_LogReadsBack ==
    current_file # Nothing
        => /\ read_log(current_file, files) = Some(buffer)
           /\ build_prompt(read_log(current_file, files)).raised = None
           /\ Len(build_prompt(read_log(current_file, files)).lines) = Len(buffer)

----------------------------------------------------------------------------
(* Properties of the identity validation, checked under SpecValidate *)

\* the rows the claim speaks of: the phone has the last ten digits the caller gave,
\* the last4ssn is the one given, and the dob is the mm/dd/yyyy of the eight digits
\* mmddyyyy given
Matches(row, l) ==
    LET digits == OnlyDigits(l.dob[1]) IN
    /\ LastChars(OnlyDigits(row.phone), 10) = LastChars(OnlyDigits(l.phone[1]), 10)
    /\ row.last4ssn = OnlyDigits(l.last4[1])
    /\ row.dob = <<digits[1], digits[2], "/", digits[3], digits[4], "/",
                   digits[5], digits[6], digits[7], digits[8]>>

\* the inputs the claim speaks of: ten or more digits of a phone, four of an SSN and
\* eight of a date, the file being there
WellFormed(l) ==
    /\ l.exists
    /\ l.phone # Nothing /\ Len(OnlyDigits(l.phone[1])) >= 10
    /\ Len(OnlyDigits(l.last4[1])) = 4
    /\ l.dob # Nothing /\ Len(OnlyDigits(l.dob[1])) = 8

\* C30: a validation whose phone has ten digits or more, whose last4 has four and
\* whose date of birth has the eight digits mmddyyyy returns a stored record with the
\* same last ten digits of the phone, that last4ssn and the dob mm/dd/yyyy, whenever
\* there is one; so "555-123-4567", "9876" and 11101986 match the record with the dob
\* "11/10/1986".
C30_EightDigitDobMatches ==
    [][(/\ ret'.op \in {"validate_customer", "CustomerDataService.validate_customer"}
        /\ WellFormed(lookup[1])
        /\ \E i \in 1..Len(CustomerRows) : Matches(CustomerRows[i], lookup[1]))
          => /\ ret'.raised = None
             /\ ret'.read # Nothing
             /\ Matches(ret'.read[1], lookup[1])]_vars

C30_Witness ==
    /\ ret.op = "validate_customer"
    /\ lookup # Nothing
    /\ lookup[1].phone = Some(<<"5", "5", "5", "-", "1", "2", "3", "-", "4", "5", "6", "7">>)
    /\ lookup[1].last4 = Some(<<"9", "8", "7", "6">>)
    /\ lookup[1].dob = Some(<<"1", "1", "1", "0", "1", "9", "8", "6">>)
    /\ ret.read # Nothing
    /\ ret.read[1].dob = <<"1", "1", "/", "1", "0", "/", "1", "9", "8", "6">>

----------------------------------------------------------------------------
(* Properties of the branches, the callback and the sessions of a call, checked under SpecCall and SpecCallLive *)

\* C23: after the identity was validated, the answer to the prompt "say connect,
\* otherwise say manual" decides the branch: "connect" leads to the Epic path, where a
\* session is created and its authorize URL built, and "manual" leads to the manual
\* intent routing.
C23_AnswerDecidesBranch ==
    [][\A choice \in Choices :
         OfferEpic(choice)
             => /\ choice = "connect"
                    => /\ pc' = "poll_sleep"
                       /\ session_id' \in DOMAIN sessions'
                       /\ auth_url' # Nothing
                /\ choice = "manual" => pc' = "manual"]_vars

\* C27: a callback without a code or without a state is answered with the status 400,
\* sends nothing to the token endpoint and leaves the session store unchanged.
C27_MissingParameterIs400 ==
    [][\A code \in Codes \cup {None}, state \in SessionIds \cup {None} :
         (/\ ret'.op = "epic_callback"
          /\ (code = None \/ state = None)
          /\ EpicCallback(code, state))
             => /\ ret'.status = "400"
                /\ ret'.raised = None
                /\ ret'.posted = None
                /\ posts' = posts
                /\ sessions' = sessions]_vars

C27_Witness ==
    /\ ret.op = "epic_callback"
    /\ ret.status = "400"
    /\ ret.sid \in DOMAIN sessions
    /\ sessions[ret.sid].pkce_verifier # None
    /\ sessions[ret.sid].token = Nothing

\* C25: once a call that created a session has completed, the session's id is
\* eventually absent from the session store.
C25_SessionRemovedAfterCall ==
    (pc = "answered" /\ session_id # None) ~> (session_id \notin DOMAIN sessions)

----------------------------------------------------------------------------
(* Properties of the token cache, checked under SpecCache *)

\* C31: after set_token the token is in the snapshot file, so that an AuthTokenCache
\* constructed on the same path next would hold the token the call stored and
\* get_token would return its access token until now reaches expires_at.
C31_TokenIsPersisted ==
    [][ret'.op = "set_token" =>
         /\ snapshot' = caches'[ret'.sid]
         /\ snapshot' # Nothing
         /\ \A t \in now..MaxTime :
              get_token(AuthTokenCache_load(snapshot'), t) =
                  (IF t < snapshot'[1].expires_at THEN snapshot'[1].access_token
                   ELSE None)]_vars

----------------------------------------------------------------------------
(* Properties of the sessions of two calls, checked under SpecFrame *)

\* the operations that write to the session store
Writers == {"create_session", "build_authorize_url", "redeem_code_for_token",
            "get_valid_access_token"}

\* C32: create_session, build_authorize_url, redeem_code_for_token and
\* get_valid_access_token (a refresh included) for one session leave every other
\* session as it was: it is neither added nor removed, and its verifier, token and
\* patient id keep their values.
C32_OtherSessionsUnchanged ==
    [][ret'.op \in Writers =>
         \A b \in SessionIds \ {ret'.sid} :
            /\ (b \in DOMAIN sessions') = (b \in DOMAIN sessions)
            /\ b \in DOMAIN sessions => sessions'[b] = sessions[b]]_vars

\* a refresh for s1 was answered while s2 holds a verifier, a token and a patient id
C32_Witness ==
    /\ ret.op = "get_valid_access_token"
    /\ ret.sid = "s1"
    /\ ret.posted = "refresh_token"
    /\ ret.http = "2xx"
    /\ "s2" \in DOMAIN sessions
    /\ sessions["s2"].token # Nothing
    /\ sessions["s2"].pkce_verifier # None
    /\ sessions["s2"].fhir_patient_id # None
    /\ sessions["s1"].token # sessions["s2"].token

----------------------------------------------------------------------------
(* Properties of concurrent callers of the session store, checked under SpecThreads *)

\* C33: of two callers of get_valid_access_token for the same session that both
\* read its expired token before a request was sent for either, at most one
\* submits the stored refresh token to the token endpoint.
C33_RefreshSubmittedOnce ==
    \A t, u \in DOMAIN threads :
        (/\ t # u
         /\ threads[t].op = "get_valid_access_token"
         /\ threads[u].op = "get_valid_access_token"
         /\ threads[t].sid = threads[u].sid
         /\ threads[t].began = threads[u].began
         /\ threads[t].refresh = threads[u].refresh)
        => ~(threads[t].sent = 1 /\ threads[u].sent = 1)

\* the redemptions whose token is the one stored for session s and whose token
\* response names a patient
Redeemed(s) ==
    {t \in DOMAIN threads :
        /\ threads[t].op = "redeem_code_for_token"
        /\ threads[t].sid = s
        /\ threads[t].at \in {"redeem_derive", "returned"}
        /\ sessions[s].token # Nothing
        /\ sessions[s].token[1].access_token = threads[t].body[1].access_token
        /\ DerivePatient(threads[t].body[1]).raised = None
        /\ DerivePatient(threads[t].body[1]).patient # None}

\* C34: whenever has_token answers True for a session whose stored token came from a
\* token response that names a patient, the session's fhir_patient_id, which
\* get_fhir_patient_id returns, is already that patient.
C34_TokenNeverWithoutPatient ==
    [][(ret'.op = "has_token" /\ ret'.val = "True") =>
         \A t \in Redeemed(ret'.sid) :
            sessions[ret'.sid].fhir_patient_id =
                DerivePatient(threads[t].body[1]).patient]_vars

----------------------------------------------------------------------------
(* Properties of the order of a call's steps, checked under SpecCall and SpecIntent *)

\* the text was handed to speech_client.speak during the call
Spoke(text) == \E i \in 1..Len(spoken) : spoken[i] = text

\* C36: a booking request is submitted in a call only after the caller was
\* validated, the session's token was seen, a non-empty list of options was
\* presented and the caller was asked to select one; the confirmation email is sent
\* only after a booking request succeeded.
C36_BookingOnlyAfterSelection ==
    /\ booked # <<>> =>
          /\ user # Nothing
          /\ Spoke("Option 1")
          /\ Spoke("Say the option number to book.")
    /\ (Spoke("Confirmation email sent.") \/ Spoke("Your appointment is booked.")) =>
          booked # <<>>

\* no call of the model submits a booking request
C36_CallsNeverBook == booked = <<>> /\ pc # "epic_intent"

----------------------------------------------------------------------------
(* Properties of the phone match, checked under SpecValidate *)

\* C37: a validation returns a record only if the caller supplied a phone of ten
\* digits or more and their last ten are the last ten digits of the record's phone;
\* no phone, or fewer than ten digits, never selects a record.
C37_PhoneMustMatch ==
    [][(/\ ret'.op \in {"validate_customer", "CustomerDataService.validate_customer"}
        /\ ret'.read # Nothing)
       => /\ lookup[1].phone # Nothing
          /\ Len(OnlyDigits(lookup[1].phone[1])) >= 10
          /\ LastChars(OnlyDigits(ret'.read[1].phone), 10) =
                 LastChars(OnlyDigits(lookup[1].phone[1]), 10)]_vars

----------------------------------------------------------------------------
(* Properties of the end of a call, checked under SpecCall and SpecCallLive *)

\* the values simulate_call_flow returns
FinalReturns ==
    {"Authentication failed.", "Call completed (Epic Mode).",
     "Call completed (Manual Mode)."}

\* C38: every call terminates by a final return of simulate_call_flow: once the call
\* has ended, on whichever path (failed authentication, manual mode, Epic mode), its
\* result is one of the values simulate_call_flow returns.
C38_CallEndsByReturn ==
    pc \in {"returned", "raised", "answered"} => result \in FinalReturns

\* the statements of simulate_call_flow, which asyncio.run executes to the end
CallStep ==
    \/ AuthenticateUser
    \/ \E choice \in Choices : OfferEpic(choice)
    \/ PollSleep
    \/ PollCheck
    \/ ManualMode

SpecCallRuns == Init /\ [][NextCall]_vars /\ WF_vars(CallStep)

\* under SpecCallRuns a call that has begun ends, by a return or by an exception
C38_CallStops ==
    (pc = "authenticate") ~> (pc \in {"returned", "raised"})

----------------------------------------------------------------------------
(* Properties of the logs of two calls, checked under SpecLoggers *)

\* the entry is among those of the file
InFile(entry, file) ==
    /\ file \in DOMAIN files
    /\ \E i \in 1..Len(files[file]) : files[file][i] = entry

\* C39: two loggers that each called start_new write to different files, and every
\* entry a logger was handed since its start_new is in the file of its call.
C39_LogsKeptApart ==
    /\ \A l, m \in DOMAIN loggers :
          (l # m /\ loggers[l].current_file # Nothing /\ loggers[m].current_file # Nothing)
          => loggers[l].current_file # loggers[m].current_file
    /\ \A l \in DOMAIN loggers :
          loggers[l].current_file # Nothing =>
             \A i \in 1..Len(loggers[l].buffer) :
                InFile(loggers[l].buffer[i], loggers[l].current_file[1])

====
